---------------------------- MODULE Spec2Model ----------------------------
(***************************************************************************)
(* A model of Perdoo's metadata pipeline (src/perdoo/__main__.py,          *)
(* src/perdoo/services/comicvine.py, src/perdoo/archives).                 *)
(*                                                                         *)
(* The specifications share the module's variables:                        *)
(*   SpecRead      read_archive applied to one archive                     *)
(*   SpecFetch     fetch_from_services, with Comicvine.fetch in detail     *)
(*   SpecStart     start: the conversion pass and the processing loop      *)
(*   SpecRerun     start, run twice on a collection of one archive         *)
(*   SpecPages     process_pages applied twice to a scratch directory      *)
(*   SpecDispatch  get_archive applied to one file                         *)
(*   SpecName      generate_filename applied to one metadata               *)
(*   SpecSearch    Comicvine._search_issues, round by round                *)
(*   SpecTitles    Comicvine._search_publishers and _search_series         *)
(* Each specification leaves the variables of the others at their idle     *)
(* value.                                                                  *)
(***************************************************************************)
EXTENDS Integers, Sequences, FiniteSets, TLC

VARIABLES
    archive,      \* SpecRead: the archive handed to read_archive
    result,       \* SpecRead: what read_archive returned (None before the call)
    fetch,        \* SpecFetch: the state of one fetch_from_services call
    run,          \* SpecStart: the state of one run of start
    folder,       \* SpecPages: a scratch directory and the three page lists
    call,         \* SpecDispatch, SpecName: one call of a function
    search        \* SpecSearch, SpecTitles: one interactive search

vars == <<archive, result, fetch, run, folder, call, search>>

\* Python's None.
None == [kind |-> "None"]

\* The value a variable of another specification is parked at.
Idle == [kind |-> "Idle"]

\* An identifier that is None; the code tests identifiers with "not id" and
\* "id or ...", which treats None and 0 alike.
NoId == 0

(***************************************************************************)
(* Bounds of the model.                                                    *)
(***************************************************************************)
\* Series titles are "T1" .. "T<MaxTitles>".
MaxTitles == 2
\* Issue numbers are "1" .. "<MaxNumbers>".
MaxNumbers == 2
\* Identifiers of the external catalog are 1 .. MaxId.
MaxId == 2
\* A collection holds 1 .. MaxArchives archive files.
MaxArchives == 2

Titles == { "T" \o ToString(i) : i \in 1..MaxTitles }
Numbers == { ToString(i) : i \in 1..MaxNumbers }
Ids == 1..MaxId

(***************************************************************************)
(* The three metadata schemas (perdoo.models), reduced to the fields the   *)
(* pipeline code under src/ reads or writes.                               *)
(***************************************************************************)
\* Tool(): the default tool signature (perdoo.models.metadata.Tool).
DefaultTool == "Perdoo"

\* Meta(date_=..., tool=...): date is the stamp's date in days relative to today.
Meta(date_, tool) == [date_ |-> date_, tool |-> tool]

\* perdoo.models.metadata.Format: the kinds generate_filename tells apart.
COMIC == "Comic"
ANNUAL == "Annual"
DIGITAL_CHAPTER == "Digital Chapter"
GRAPHIC_NOVEL == "Graphic Novel"
HARDCOVER == "Hardcover"
TRADE_PAPERBACK == "Trade Paperback"

\* perdoo.models.Metadata
MkMetadata(publisher, title, number, meta) ==
    [ issue |-> [ number    |-> number,
                  format    |-> COMIC,
                  title     |-> "",
                  resources |-> <<>>,
                  series    |-> [ title      |-> title,
                                  volume     |-> 1,
                                  start_year |-> 0,
                                  resources  |-> <<>>,
                                  publisher |-> [ title     |-> publisher,
                                                  resources |-> <<>> ] ] ],
      meta  |-> meta ]

\* perdoo.models.MetronInfo
MkMetronInfo(publisher, series, number) ==
    [ id        |-> None,
      publisher |-> [ id |-> NoId, value |-> publisher ],
      series    |-> [ id |-> NoId, name |-> series ],
      number    |-> number,
      collection_title |-> "" ]

\* perdoo.models.ComicInfo
MkComicInfo(publisher, series, number) ==
    [ publisher |-> publisher, series |-> series, number |-> number, title |-> "" ]

(***************************************************************************)
(* perdoo.utils: the pairwise conversions.  Each is total and carries the  *)
(* fields both schemas support; the rest is left at its default.           *)
(***************************************************************************)
metron_to_metadata(metron_info) ==
    MkMetadata(metron_info.publisher.value, metron_info.series.name,
               metron_info.number, Meta(0, "MetronInfo"))

comic_to_metadata(comic_info) ==
    MkMetadata(comic_info.publisher, comic_info.series, comic_info.number,
               Meta(0, "ComicInfo"))

\* The minimal default: the series title is the archive's file name.
create_metadata(a) ==
    MkMetadata("", a.stem, "", Meta(0, "Manual"))

metadata_to_metron(metadata) ==
    MkMetronInfo(metadata.issue.series.publisher.title,
                 metadata.issue.series.title, metadata.issue.number)

metadata_to_comic(metadata) ==
    MkComicInfo(metadata.issue.series.publisher.title,
                metadata.issue.series.title, metadata.issue.number)

(***************************************************************************)
(* An archive as read_archive sees it: the entry names it lists and the    *)
(* bytes of each entry.  An entry's bytes either validate against their    *)
(* schema (and then stand for the document they hold) or do not.           *)
(***************************************************************************)
Schemas == {"Metadata", "MetronInfo", "ComicInfo"}

\* The two names under which read_archive looks an entry up.
SlashName(schema) == "/" \o schema \o ".xml"
PlainName(schema) == schema \o ".xml"

Absent == [name |-> "", valid |-> FALSE, doc |-> None]

DocsOf(schema) ==
    CASE schema = "Metadata" ->
            { MkMetadata("P", t, n, Meta(0, DefaultTool)) : t \in Titles, n \in Numbers }
      [] schema = "MetronInfo" ->
            { MkMetronInfo("P", t, n) : t \in Titles, n \in Numbers }
      [] OTHER ->
            { MkComicInfo("P", t, n) : t \in Titles, n \in Numbers }

EntriesOf(schema) ==
    {Absent}
    \cup { [name |-> nm, valid |-> FALSE, doc |-> None] :
             nm \in {SlashName(schema), PlainName(schema)} }
    \cup { [name |-> nm, valid |-> TRUE, doc |-> d] :
             nm \in {SlashName(schema), PlainName(schema)}, d \in DocsOf(schema) }

Archives ==
    { [stem |-> "file", readable |-> r, entries |-> e] :
        r \in BOOLEAN,
        e \in { f \in [Schemas -> UNION { EntriesOf(s) : s \in Schemas }] :
                  \A s \in Schemas : f[s] \in EntriesOf(s) } }

\* BaseArchive.list_filenames: fails soft with an empty list.
list_filenames(a) ==
    IF a.readable
    THEN { a.entries[s].name : s \in { x \in Schemas : a.entries[x].name # "" } }
    ELSE {}

\* BaseArchive.read_file: the entry stored under that name.
read_file(a, filename) ==
    CHOOSE e \in { a.entries[s] : s \in Schemas } : e.name = filename

(***************************************************************************)
(* read_archive                                                            *)
(***************************************************************************)
\* <Schema>.from_bytes: the document, or a ValidationError.
from_bytes(content) ==
    IF content.valid
    THEN [raised |-> "", value |-> content.doc]
    ELSE [raised |-> "ValidationError", value |-> None]

\* The body of one try block: look the entry up under both names, parse it.
TryBody(a, schema) ==
    LET filenames == list_filenames(a)
    IN  IF SlashName(schema) \in filenames
        THEN from_bytes(read_file(a, SlashName(schema)))
        ELSE IF PlainName(schema) \in filenames
        THEN from_bytes(read_file(a, PlainName(schema)))
        ELSE [raised |-> "", value |-> None]

\* A mutant of ParseEntry: the ValidationError is not caught.
ParseEntryNoExcept(a, schema) == TryBody(a, schema)

\* try: ... except ValidationError: log; the variable keeps its None.
ParseEntry(a, schema) ==
    LET r == TryBody(a, schema)
    IN  IF r.raised = "ValidationError"
        THEN [raised |-> "", value |-> None]
        ELSE r

\* A mutant of DeriveMetadata: ComicInfo is preferred to MetronInfo.
DeriveMetadataComicFirst(a, metadata, metron_info, comic_info) ==
    IF metadata # None THEN [value |-> metadata, via |-> "file"]
    ELSE IF comic_info # None
    THEN [value |-> comic_to_metadata(comic_info), via |-> "comic_to_metadata"]
    ELSE IF metron_info # None
    THEN [value |-> metron_to_metadata(metron_info), via |-> "metron_to_metadata"]
    ELSE [value |-> create_metadata(a), via |-> "create_metadata"]

\* if not metadata: metron_to_metadata, else comic_to_metadata, else
\* create_metadata.  via records the branch taken.
DeriveMetadata(a, metadata, metron_info, comic_info) ==
    IF metadata # None THEN [value |-> metadata, via |-> "file"]
    ELSE IF metron_info # None
    THEN [value |-> metron_to_metadata(metron_info), via |-> "metron_to_metadata"]
    ELSE IF comic_info # None
    THEN [value |-> comic_to_metadata(comic_info), via |-> "comic_to_metadata"]
    ELSE [value |-> create_metadata(a), via |-> "create_metadata"]

\* A mutant of DeriveMetron: a missing MetronInfo is left missing.
DeriveMetronMissing(metadata, metron_info) == metron_info

\* if not metron_info: metron_info = metadata_to_metron(metadata)
DeriveMetron(metadata, metron_info) ==
    IF metron_info = None THEN metadata_to_metron(metadata) ELSE metron_info

\* A mutant of DeriveComic: ComicInfo is derived from the archive's default
\* metadata instead of the reconciled one.
DeriveComicFromDefault(a, metadata, comic_info) ==
    IF comic_info = None THEN metadata_to_comic(create_metadata(a)) ELSE comic_info

\* if not comic_info: comic_info = metadata_to_comic(metadata)
DeriveComic(a, metadata, comic_info) ==
    IF comic_info = None THEN metadata_to_comic(metadata) ELSE comic_info

\* read_archive: raised names the exception that left the function, if any;
\* parsed and via record which entries parsed and which branch derived the
\* canonical metadata.
read_archive(a) ==
    LET p1 == ParseEntry(a, "Metadata")
        p2 == ParseEntry(a, "MetronInfo")
        p3 == ParseEntry(a, "ComicInfo")
        failed == IF p1.raised # "" THEN p1.raised
                  ELSE IF p2.raised # "" THEN p2.raised
                  ELSE p3.raised
        md == DeriveMetadata(a, p1.value, p2.value, p3.value)
    IN  IF failed # ""
        THEN [ raised |-> failed, metadata |-> None, metron_info |-> None,
               comic_info |-> None, via |-> "",
               parsed |-> [s \in Schemas |-> FALSE] ]
        ELSE [ raised      |-> "",
               metadata    |-> md.value,
               metron_info |-> DeriveMetron(md.value, p2.value),
               comic_info  |-> DeriveComic(a, md.value, p3.value),
               via         |-> md.via,
               parsed      |-> [ s \in Schemas |->
                                   CASE s = "Metadata" -> p1.value # None
                                     [] s = "MetronInfo" -> p2.value # None
                                     [] OTHER -> p3.value # None ] ]

InitRead ==
    /\ archive \in Archives
    /\ result = None
    /\ fetch = Idle
    /\ run = Idle
    /\ folder = Idle /\ call = Idle /\ search = Idle

\* The call of read_archive on the archive.
ReadArchive ==
    /\ archive # Idle
    /\ result = None
    /\ result' = read_archive(archive)
    /\ UNCHANGED <<archive, fetch, run, folder, call, search>>

NextRead == ReadArchive

SpecRead == InitRead /\ [][NextRead]_vars

(***************************************************************************)
(* Settings and services (fetch_from_services).                            *)
(***************************************************************************)
\* The order of the tuple any() walks: (marvel, metron, comicvine, league).
ServiceOrder == <<"Marvel", "Metron", "Comicvine", "League">>

\* One service's section of the settings: whether the section is there, and
\* whether each of its credentials is non-empty (Comicvine has one only,
\* api_key; its second flag is not read).
Credentials(section, first, second) ==
    [section |-> section, first |-> first, second |-> second]

\* The credential states of the model: no section, a section lacking the
\* second credential, a section holding both.
CredentialStates ==
    { Credentials(FALSE, FALSE, FALSE), Credentials(TRUE, TRUE, FALSE),
      Credentials(TRUE, TRUE, TRUE) }

\* Comicvine: no section, an empty api_key, an api_key.
ComicvineCredentialStates ==
    { Credentials(FALSE, FALSE, FALSE), Credentials(TRUE, FALSE, FALSE),
      Credentials(TRUE, TRUE, FALSE) }

SettingsSet ==
    { [Marvel |-> a, Metron |-> b, Comicvine |-> c, League |-> d] :
        a \in CredentialStates, b \in CredentialStates,
        c \in ComicvineCredentialStates, d \in CredentialStates }

\* The conditions under which fetch_from_services constructs a service.
IsConfigured(settings, service) ==
    IF service = "Comicvine"
    THEN settings[service].section /\ settings[service].first
    ELSE settings[service].section /\ settings[service].first
         /\ settings[service].second

\* The next position after pos of the tuple that holds a service (not
\* None); 0 when the tuple is exhausted.
NextService(services, pos) ==
    LET later == { j \in (pos + 1)..Len(ServiceOrder) : ServiceOrder[j] \in services }
    IN  IF later = {} THEN 0
        ELSE CHOOSE j \in later : \A k \in later : j <= k

(***************************************************************************)
(* The Comicvine catalog (simyan) and the merge functions of comicvine.py. *)
(***************************************************************************)
Resource(source, value) == [source |-> source, value |-> value]

\* perdoo.models.metadata.Source.COMICVINE
COMICVINE == "Comicvine"
\* perdoo.models.metron_info.InformationSource.COMIC_VINE
COMIC_VINE == "Comic Vine"
\* Another source system.
METRON == "Metron"

\* session.get_publisher / get_volume / get_issue: the catalog's record.
get_publisher(publisher_id) ==
    [id |-> publisher_id, name |-> "CV Publisher " \o ToString(publisher_id)]

get_volume(volume_id) ==
    [id |-> volume_id, name |-> "CV Series " \o ToString(volume_id),
     start_year |-> 2000 + volume_id]

get_issue(issue_id) ==
    [id |-> issue_id, name |-> "CV Issue " \o ToString(issue_id),
     number |-> ToString(issue_id)]

\* set(resources): the (source, value) pairs a list holds.
SetOf(resources) == { resources[i] : i \in DOMAIN resources }

\* list(resources): the pairs of a set as a list, each once.
RECURSIVE ListOf(_)
ListOf(resources) ==
    IF resources = {} THEN <<>>
    ELSE LET first == CHOOSE r \in resources : TRUE
         IN  <<first>> \o ListOf(resources \ {first})

\* A mutant of add_publisher_to_metadata: the list is replaced by the new
\* identifier.
add_publisher_to_metadata_replacing(publisher, metadata) ==
    [metadata EXCEPT
        !.issue.series.publisher.resources = <<Resource(COMICVINE, publisher.id)>>,
        !.issue.series.publisher.title = publisher.name]

add_publisher_to_metadata(publisher, metadata) ==
    [metadata EXCEPT
        !.issue.series.publisher.resources =
            ListOf(SetOf(@) \cup {Resource(COMICVINE, publisher.id)}),
        !.issue.series.publisher.title = publisher.name]

\* A mutant of add_publisher_to_metron_info: the identifier is written
\* whatever the top-level id names.
add_publisher_to_metron_info_always(publisher, metron_info) ==
    [metron_info EXCEPT !.publisher.id = publisher.id,
                        !.publisher.value = publisher.name]

add_publisher_to_metron_info(publisher, metron_info) ==
    [metron_info EXCEPT
        !.publisher.id = IF metron_info.id = None \/ metron_info.id.source = COMIC_VINE
                         THEN publisher.id ELSE @,
        !.publisher.value = publisher.name]

add_publisher_to_comic_info(publisher, comic_info) ==
    [comic_info EXCEPT !.publisher = publisher.name]

add_series_to_metadata(series, metadata) ==
    [metadata EXCEPT
        !.issue.series.resources = ListOf(SetOf(@) \cup {Resource(COMICVINE, series.id)}),
        !.issue.series.start_year = series.start_year,
        !.issue.series.title = series.name]

add_series_to_metron_info(series, metron_info) ==
    [metron_info EXCEPT
        !.series.id = IF metron_info.id = None \/ metron_info.id.source = COMIC_VINE
                      THEN series.id ELSE @,
        !.series.name = series.name]

add_series_to_comic_info(series, comic_info) ==
    [comic_info EXCEPT !.series = series.name]

\* Of the issue facts the model keeps the number and the title.
add_issue_to_metadata(issue, metadata) ==
    [metadata EXCEPT
        !.issue.resources = ListOf(SetOf(@) \cup {Resource(COMICVINE, issue.id)}),
        !.issue.number = issue.number,
        !.issue.title = issue.name]

add_issue_to_metron_info(issue, metron_info) ==
    [metron_info EXCEPT
        !.id = IF metron_info.id = None \/ metron_info.id.source = COMIC_VINE
               THEN Resource(COMIC_VINE, issue.id) ELSE @,
        !.number = issue.number,
        !.collection_title = issue.name]

add_issue_to_comic_info(issue, comic_info) ==
    [comic_info EXCEPT !.number = issue.number, !.title = issue.name]

\* next((x.value for x in resources if x.source == Source.COMICVINE), None)
ComicvineValue(resources) ==
    LET own == { i \in DOMAIN resources : resources[i].source = COMICVINE }
    IN  IF own = {} THEN NoId
        ELSE resources[CHOOSE i \in own : \A j \in own : i <= j].value

\* A mutant of MetronValue: MetronInfo's identifier is used whatever source
\* its top-level id names.
MetronValueAnySource(metron_info, value) == value

\* "<metron id> if metron_info.id and metron_info.id.source == COMIC_VINE
\* else None"
MetronValue(metron_info, value) ==
    IF metron_info.id # None /\ metron_info.id.source = COMIC_VINE
    THEN value ELSE NoId

\* "a or b or search(...)": searched is what the interactive search returns
\* if it is started.
FirstId(stored, fallback, searched) ==
    IF stored # NoId THEN stored
    ELSE IF fallback # NoId THEN fallback
    ELSE searched

_get_publisher_id(metadata, metron_info, searched) ==
    FirstId(ComicvineValue(metadata.issue.series.publisher.resources),
            MetronValue(metron_info, metron_info.publisher.id), searched)

_get_series_id(metadata, metron_info, searched) ==
    FirstId(ComicvineValue(metadata.issue.series.resources),
            MetronValue(metron_info, metron_info.series.id), searched)

_get_issue_id(metadata, metron_info, searched) ==
    FirstId(ComicvineValue(metadata.issue.resources),
            MetronValue(metron_info,
                        IF metron_info.id = None THEN NoId ELSE metron_info.id.value),
            searched)

\* The metadata triple a stage works on.
Triple(metadata, metron_info, comic_info) ==
    [metadata |-> metadata, metron_info |-> metron_info, comic_info |-> comic_info]

\* Comicvine.fetch_publisher: searched is the search's answer, error whether
\* get_publisher raises ServiceError.  value is the Publisher or None.
fetch_publisher(m, searched, error) ==
    LET publisher_id == _get_publisher_id(m.metadata, m.metron_info, searched)
        publisher == get_publisher(publisher_id)
    IN  IF publisher_id = NoId \/ error
        THEN [value |-> None, id |-> publisher_id, m |-> m]
        ELSE [value |-> publisher, id |-> publisher_id,
              m |-> Triple(add_publisher_to_metadata(publisher, m.metadata),
                           add_publisher_to_metron_info(publisher, m.metron_info),
                           add_publisher_to_comic_info(publisher, m.comic_info))]

\* Comicvine.fetch_series
fetch_series(m, searched, error) ==
    LET series_id == _get_series_id(m.metadata, m.metron_info, searched)
        series == get_volume(series_id)
    IN  IF series_id = NoId \/ error
        THEN [value |-> None, id |-> series_id, m |-> m]
        ELSE [value |-> series, id |-> series_id,
              m |-> Triple(add_series_to_metadata(series, m.metadata),
                           add_series_to_metron_info(series, m.metron_info),
                           add_series_to_comic_info(series, m.comic_info))]

\* Comicvine.fetch_issue
fetch_issue(m, searched, error) ==
    LET issue_id == _get_issue_id(m.metadata, m.metron_info, searched)
        issue == get_issue(issue_id)
    IN  IF issue_id = NoId \/ error
        THEN [value |-> None, id |-> issue_id, m |-> m]
        ELSE [value |-> issue, id |-> issue_id,
              m |-> Triple(add_issue_to_metadata(issue, m.metadata),
                           add_issue_to_metron_info(issue, m.metron_info),
                           add_issue_to_comic_info(issue, m.comic_info))]

(***************************************************************************)
(* The catalog's content as the searches see it: volume v is published by  *)
(* publisher VolumePublisher(v), issue i belongs to volume IssueVolume(i).  *)
(***************************************************************************)
VolumePublisher(v) == v
IssueVolume(i) == i

\* What _search_publishers can return: an identifier the operator picked,
\* or None (declined, nothing picked, ServiceError).
SearchPublishers == Ids \cup {NoId}

\* _search_series: the candidates are the volumes of that publisher.
SearchSeries(publisher_id) ==
    { v \in Ids : VolumePublisher(v) = publisher_id } \cup {NoId}

\* _search_issues: the candidates are the issues of that series.
SearchIssues(series_id) ==
    { i \in Ids : IssueVolume(i) = series_id } \cup {NoId}

(***************************************************************************)
(* fetch_from_services and Comicvine.fetch as a process (SpecFetch).       *)
(* fetch.pc is "configure" before the services are built, "fetch" when the  *)
(* service at position fetch.pos is about to be asked, "series" and "issue" *)
(* inside Comicvine.fetch, "done" after fetch_from_services returned.       *)
(***************************************************************************)
\* The reconciled metadata fetch_from_services may be handed: with or
\* without stored Comicvine identifiers (for the publisher; the publisher
\* and the series; all three), with or without an identifier of another
\* source, and with a MetronInfo id that is absent, Comic Vine's or not.
StoredResources(has_own, has_other) ==
    (IF has_other THEN <<Resource(METRON, 1)>> ELSE <<>>)
    \o (IF has_own THEN <<Resource(COMICVINE, 1)>> ELSE <<>>)

ReconciledMetadata(levels, has_other) ==
    [MkMetadata("P", "T1", "1", Meta(0, "Manual")) EXCEPT
        !.issue.series.publisher.resources = StoredResources(levels >= 1, has_other),
        !.issue.series.resources = StoredResources(levels >= 2, has_other),
        !.issue.resources = StoredResources(levels >= 3, has_other)]

ReconciledMetron(source) ==
    IF source = ""
    THEN MkMetronInfo("P", "T1", "1")
    ELSE [MkMetronInfo("P", "T1", "1") EXCEPT
            !.id = Resource(source, 1), !.publisher.id = 1, !.series.id = 1]

Reconciled ==
    { Triple(ReconciledMetadata(levels, has_other), ReconciledMetron(source),
             MkComicInfo("P", "T1", "1")) :
        levels \in 0..3, has_other \in BOOLEAN, source \in {"", COMIC_VINE, METRON} }

InitFetch ==
    /\ archive = Idle
    /\ result = Idle
    /\ run = Idle
    /\ folder = Idle /\ call = Idle /\ search = Idle
    /\ \E settings \in SettingsSet, m \in Reconciled :
         fetch = [ settings |-> settings,
                   services |-> {},
                   pos      |-> 0,
                   pc       |-> "configure",
                   m        |-> m,
                   before   |-> m,
                   calls    |-> <<>>,
                   stages   |-> <<>>,
                   cv       |-> [publisher |-> None, series |-> None],
                   success  |-> "pending",
                   warning  |-> "" ]

\* Lines 103-121: build the services whose credentials are complete; with
\* none, warn and return.
Configure ==
    /\ fetch # Idle
    /\ fetch.pc = "configure"
    /\ LET services == { sv \in {ServiceOrder[i] : i \in DOMAIN ServiceOrder} :
                           IsConfigured(fetch.settings, sv) }
       IN  fetch' =
             IF services = {}
             THEN [fetch EXCEPT !.pc = "done",
                                !.warning = "No external services configured"]
             ELSE [fetch EXCEPT !.services = services,
                                !.pos = NextService(services, 0),
                                !.pc = "fetch"]
    /\ UNCHANGED <<archive, result, run, folder, call, search>>

\* A mutant of AfterFetch: any() does not stop at a service that succeeded.
AfterFetchNoStop(f, ok) ==
    LET next == NextService(f.services, f.pos)
    IN  IF next = 0
        THEN [f EXCEPT !.pc = "done", !.success = IF ok THEN "yes" ELSE "no"]
        ELSE [f EXCEPT !.pos = next, !.pc = "fetch", !.cv = [publisher |-> None, series |-> None]]

\* Lines 123-127: any() over the tuple.  After a fetch returned ok, any()
\* stops at True; else it moves to the next service that is not None, and
\* when there is none the result is False and the warning is logged.
AfterFetch(f, ok) ==
    LET next == NextService(f.services, f.pos)
    IN  IF ok
        THEN [f EXCEPT !.pc = "done", !.success = "yes"]
        ELSE IF next = 0
        THEN [f EXCEPT !.pc = "done", !.success = "no",
                       !.warning = "Unable to fetch information fron any service"]
        ELSE [f EXCEPT !.pos = next, !.pc = "fetch",
                       !.cv = [publisher |-> None, series |-> None]]

\* What a successful fetch of Marvel, Metron or League leaves in the three
\* objects: the service's names for publisher and series.
EnrichedBy(service, m) ==
    Triple([m.metadata EXCEPT !.issue.series.publisher.title = service \o " Publisher",
                              !.issue.series.title = service \o " Series"],
           [m.metron_info EXCEPT !.publisher.value = service \o " Publisher",
                                 !.series.name = service \o " Series"],
           [m.comic_info EXCEPT !.publisher = service \o " Publisher",
                                !.series = service \o " Series"])

Call(service, ok) == [service |-> service, ok |-> ok]

\* Marvel.fetch, Metron.fetch, League.fetch: the fetch succeeds and
\* enriches, or fails.
FetchOther ==
    /\ fetch # Idle
    /\ fetch.pc = "fetch"
    /\ ServiceOrder[fetch.pos] # "Comicvine"
    /\ \E ok \in BOOLEAN :
         LET service == ServiceOrder[fetch.pos]
             called == [fetch EXCEPT
                          !.calls = Append(@, Call(service, IF ok THEN "success" ELSE "failure")),
                          !.m = IF ok THEN EnrichedBy(service, @) ELSE @]
         IN  fetch' = AfterFetch(called, ok)
    /\ UNCHANGED <<archive, result, run, folder, call, search>>

Stage(op, scope, id, searched, ok) ==
    [op |-> op, scope |-> scope, id |-> id, searched |-> searched, ok |-> ok]

\* The last call's result becomes known.
Returned_(calls, ok) ==
    [calls EXCEPT ![Len(calls)] = Call(@.service, IF ok THEN "success" ELSE "failure")]

\* A mutant of SeriesScope: the series is looked for under the publisher
\* identifier MetronInfo holds.
SeriesScopeFromMetron(publisher, m) == m.metron_info.publisher.id

\* Comicvine.fetch: publisher_id=publisher.id
SeriesScope(publisher, m) == publisher.id

\* Comicvine.fetch: series_id=series.id
IssueScope(series) == series.id

\* Comicvine.fetch: "if not publisher: return False" (and so for the series
\* and the issue).
StageFailed(value) == value = None

\* Comicvine.fetch, first stage: fetch_publisher, and "return False" when
\* it resolved nothing.
CvFetchPublisher ==
    /\ fetch # Idle
    /\ fetch.pc = "fetch"
    /\ ServiceOrder[fetch.pos] = "Comicvine"
    /\ \E searched \in SearchPublishers, error \in BOOLEAN :
         LET r == fetch_publisher(fetch.m, searched, error)
             started == _get_publisher_id(fetch.m.metadata, fetch.m.metron_info, NoId) = NoId
             called == [fetch EXCEPT
                          !.calls = Append(@, Call("Comicvine", "pending")),
                          !.stages = <<Stage("publisher", NoId, r.id, started, r.value # None)>>,
                          !.m = r.m,
                          !.cv.publisher = r.value]
         IN  fetch' =
               IF StageFailed(r.value)
               THEN AfterFetch([called EXCEPT !.calls = Returned_(@, FALSE)], FALSE)
               ELSE [called EXCEPT !.pc = "series"]
    /\ UNCHANGED <<archive, result, run, folder, call, search>>

\* Comicvine.fetch, second stage: fetch_series under the publisher's id.
CvFetchSeries ==
    /\ fetch # Idle
    /\ fetch.pc = "series"
    /\ LET publisher_id == SeriesScope(fetch.cv.publisher, fetch.m)
       IN  \E searched \in SearchSeries(publisher_id), error \in BOOLEAN :
             LET r == fetch_series(fetch.m, searched, error)
                 started == _get_series_id(fetch.m.metadata, fetch.m.metron_info, NoId) = NoId
                 called == [fetch EXCEPT
                              !.stages = Append(@, Stage("series", publisher_id, r.id,
                                                         started, r.value # None)),
                              !.m = r.m,
                              !.cv.series = r.value]
             IN  fetch' =
                   IF StageFailed(r.value)
                   THEN AfterFetch([called EXCEPT !.calls = Returned_(@, FALSE)], FALSE)
                   ELSE [called EXCEPT !.pc = "issue"]
    /\ UNCHANGED <<archive, result, run, folder, call, search>>

\* Comicvine.fetch, third stage: fetch_issue under the series' id, and the
\* return of fetch.
CvFetchIssue ==
    /\ fetch # Idle
    /\ fetch.pc = "issue"
    /\ LET series_id == IssueScope(fetch.cv.series)
       IN  \E searched \in SearchIssues(series_id), error \in BOOLEAN :
             LET r == fetch_issue(fetch.m, searched, error)
                 started == _get_issue_id(fetch.m.metadata, fetch.m.metron_info, NoId) = NoId
                 called == [fetch EXCEPT
                              !.stages = Append(@, Stage("issue", series_id, r.id,
                                                         started, r.value # None)),
                              !.m = r.m]
                 ok == ~StageFailed(r.value)
             IN  fetch' = AfterFetch([called EXCEPT !.calls = Returned_(@, ok)], ok)
    /\ UNCHANGED <<archive, result, run, folder, call, search>>

NextFetch == Configure \/ FetchOther \/ CvFetchPublisher \/ CvFetchSeries \/ CvFetchIssue

SpecFetch == InitFetch /\ [][NextFetch]_vars

(***************************************************************************)
(* get_archive (src/perdoo/archives/__init__.py).                          *)
(***************************************************************************)
\* What a file's bytes can be: one of the four container formats, or
\* something else.
Contents == {"zip", "rar", "tar", "7z", "other"}

\* The signature checks that pass on a file of that content.
SignaturesOf(content) == {content} \ {"other"}

\* get_archive: signatures are the checks (is_zipfile, is_rarfile,
\* is_tarfile, is_7zfile) that pass on the file.  The last test reads
\* "py7zr_loaded and is_7zfile", the function object itself and not a call
\* of it, so it passes for any file once py7zr is installed.  "raise" is
\* NotImplementedError.
get_archive(signatures, py7zr_loaded) ==
    IF "zip" \in signatures THEN "CBZArchive"
    ELSE IF "rar" \in signatures THEN "CBRArchive"
    ELSE IF "tar" \in signatures THEN "CBTArchive"
    ELSE IF py7zr_loaded THEN "CB7Archive"
    ELSE "raise"

\* The extensions a file handed to get_archive can have.
ARCHIVE_EXTENSIONS == {".cbz", ".cbr", ".cbt", ".cb7"}

\* A file whose bytes pass any of the four checks, under any extension, with
\* py7zr installed or not.
InitDispatch ==
    /\ archive = Idle /\ result = Idle /\ fetch = Idle /\ run = Idle
    /\ folder = Idle /\ search = Idle
    /\ \E signatures \in SUBSET (Contents \ {"other"}), py7zr_loaded \in BOOLEAN,
          suffix \in ARCHIVE_EXTENSIONS :
         call = [ fn           |-> "get_archive",
                  suffix       |-> suffix,
                  signatures   |-> signatures,
                  py7zr_loaded |-> py7zr_loaded,
                  returned     |-> FALSE,
                  value        |-> "" ]

\* The call of get_archive on the file.
GetArchive ==
    /\ call # Idle
    /\ call.fn = "get_archive"
    /\ ~call.returned
    /\ call' = [call EXCEPT !.returned = TRUE,
                            !.value = get_archive(call.signatures, call.py7zr_loaded)]
    /\ UNCHANGED <<archive, result, fetch, run, folder, search>>

NextDispatch == GetArchive

SpecDispatch == InitDispatch /\ [][NextDispatch]_vars

(***************************************************************************)
(* start (SpecStart): the conversion pass and the processing loop over a   *)
(* collection whose target format is cbz.                                  *)
(***************************************************************************)
\* difference.days < 28
FreshDays == 28

Abs(x) == IF x < 0 THEN -x ELSE x

\* The tool signatures a provenance stamp can carry.
Tools == {DefaultTool, "Other"}

\* Stamp dates, in days relative to today: today, and both sides of the
\* 28-day limit in the past and in the future.
StampDates == {0, 1 - FreshDays, -FreshDays, FreshDays - 1, FreshDays}

\* A mutant of IsFresh: the tool signature is not compared.
IsFreshAnyTool(meta) == Abs(0 - meta.date_) < FreshDays

\* "metadata.meta.tool == Tool() and difference.days < 28", with
\* difference = abs(date.today() - metadata.meta.date_).
IsFresh(meta) ==
    meta.tool = DefaultTool /\ Abs(0 - meta.date_) < FreshDays

\* "if not force: ... continue"
IsSkipped(force, meta) == ~force /\ IsFresh(meta)

\* str.zfill(width)
RECURSIVE Zfill(_, _)
Zfill(s, width) == IF Len(s) >= width THEN s ELSE Zfill("0" \o s, width)

\* Series volumes are 1 .. MaxVolume.
MaxVolume == 2

\* A title with a character no path segment can hold, and what is left of
\* it without that character.
DirtyTitle == "T:1"
CleanTitle == "T1"

\* perdoo.utils.sanitize on the texts of the model: the characters that are
\* illegal in a path segment are stripped.
sanitize(value) ==
    IF value = DirtyTitle THEN CleanTitle
    ELSE IF \E v \in 2..MaxVolume : value = DirtyTitle \o " v" \o ToString(v)
    THEN CleanTitle \o " v"
         \o ToString(CHOOSE v \in 2..MaxVolume : value = DirtyTitle \o " v" \o ToString(v))
    ELSE value

\* The dict of lines 143-149 with its default: .get(format, "").
FormatStr(format) ==
    CASE format = ANNUAL -> "_Annual"
      [] format = DIGITAL_CHAPTER -> "_Chapter"
      [] format = GRAPHIC_NOVEL -> "_GN"
      [] format = HARDCOVER -> "_HC"
      [] format = TRADE_PAPERBACK -> "_TP"
      [] OTHER -> ""

\* A mutant of IssueFilename: the kind's suffix always precedes the number.
IssueFilenameSuffixFirst(series_filename, format, number_str, format_str) ==
    sanitize(series_filename) \o format_str \o number_str

\* Lines 150-155: the issue file name, by format kind.
IssueFilename(series_filename, format, number_str, format_str) ==
    IF format \in {ANNUAL, DIGITAL_CHAPTER}
    THEN sanitize(series_filename) \o format_str \o number_str
    ELSE IF format \in {GRAPHIC_NOVEL, HARDCOVER, TRADE_PAPERBACK}
    THEN sanitize(series_filename) \o number_str \o format_str
    ELSE sanitize(series_filename) \o number_str

\* Lines 132-136: the series title, with the volume when it is above 1.
SeriesFilename(metadata) ==
    IF metadata.issue.series.volume > 1
    THEN metadata.issue.series.title \o " v" \o ToString(metadata.issue.series.volume)
    ELSE metadata.issue.series.title

\* new_file.parent, relative to the collection folder: lines 158-160.
ParentOf(metadata) ==
    sanitize(metadata.issue.series.publisher.title) \o "/"
    \o sanitize(SeriesFilename(metadata))

\* generate_filename, relative to the collection folder (root).
generate_filename(extension, metadata) ==
    LET series_filename == SeriesFilename(metadata)
        number_str ==
            IF metadata.issue.number # ""
            THEN "_#" \o Zfill(metadata.issue.number,
                               IF metadata.issue.format = COMIC THEN 3 ELSE 2)
            ELSE ""
        format_str == FormatStr(metadata.issue.format)
        issue_filename ==
            IssueFilename(series_filename, metadata.issue.format, number_str, format_str)
    IN  ParentOf(metadata) \o "/" \o issue_filename \o "." \o extension

\* A file of the collection: its path relative to the collection folder and
\* the directory of that path ("" is the collection folder itself).  origin
\* is the path at the start of the run, target the path generate_filename
\* gave ("" before it was called); content is "" until the run has looked at
\* the bytes; entry is the Metadata.xml entry of the container a run has
\* put at the path (None for a container no run has written); present says
\* that a file sits at the path, replaced that it is another archive's,
\* moved onto this one; the other flags record what the run did to the file.
File(dir, path, ext) ==
    [ path |-> path, dir |-> dir, origin |-> path, target |-> "",
      ext |-> ext, present |-> TRUE, content |-> "", entry |-> None,
      replaced |-> FALSE,
      converted |-> FALSE, read |-> FALSE, skipped |-> FALSE, enriched |-> FALSE,
      extracted |-> FALSE, rewritten |-> FALSE, moved |-> FALSE,
      extract_failed |-> FALSE, write_failed |-> FALSE, archive_failed |-> FALSE ]

\* The extensions of the collection's files: the target's and another one.
Extensions == {"cbz", "cbr"}

\* The metadata of the archive that an earlier run has organized.
Organized == MkMetadata("P", "T1", "1", Meta(0, DefaultTool))

\* The collections of the model: files a1.<ext>, a2.<ext>, ... in the
\* collection folder, the first of which may instead sit where an earlier
\* run moved it.
Collections ==
    UNION { { [i \in 1..n |->
                 IF i = 1 /\ organized
                 THEN File(ParentOf(Organized), generate_filename("cbz", Organized), "cbz")
                 ELSE File("", "a" \o ToString(i) \o "." \o e[i], e[i])] :
                e \in [1..n -> Extensions],
                organized \in BOOLEAN } : n \in 1..MaxArchives }

\* list_files(path, *extensions): the present files with one of the
\* extensions, in order.
RECURSIVE list_files(_, _, _)
list_files(files, extensions, from) ==
    IF from > Len(files) THEN <<>>
    ELSE (IF files[from].present /\ files[from].ext \in extensions
          THEN <<from>> ELSE <<>>)
         \o list_files(files, extensions, from + 1)

\* The loop variables of the iteration under way: the file's index, the
\* dispatched variant, the canonical metadata, the generated path, and the
\* Metadata.xml entry of the container (of the scratch directory, once
\* Metadata.xml is written there).
NoCurrent ==
    [index |-> 0, variant |-> "", metadata |-> None, new_file |-> "", entry |-> None]

\* A run of start on one of the collections, with settings.output's
\* create_metadata among the values given.  round counts the runs, and first
\* keeps the files as the run before left them.
InitRun(collections, create_metadata_values) ==
    /\ archive = Idle
    /\ result = Idle
    /\ fetch = Idle
    /\ folder = Idle /\ call = Idle /\ search = Idle
    /\ \E force \in BOOLEAN, py7zr_loaded \in BOOLEAN, files \in collections,
          output \in create_metadata_values :
         run = [ force        |-> force,
                 py7zr_loaded |-> py7zr_loaded,
                 create_metadata |-> output,
                 round        |-> 1,
                 first        |-> <<>>,
                 files        |-> files,
                 phase        |-> "convert",
                 dirs         |-> {""} \cup { files[i].dir : i \in DOMAIN files },
                 todo         |-> list_files(files, Extensions \ {"cbz"}, 1),
                 pc           |-> "",
                 cur          |-> NoCurrent,
                 temp         |-> {},
                 raised       |-> "" ]

\* SpecStart: the collections of the model, Metadata.xml output enabled
\* (the default of the settings).
InitStart == InitRun(Collections, {TRUE})

\* The bytes the files of a collection hold: start treats every variant that
\* can write alike, so zip stands for tar and 7z here.
CollectionContents == {"zip", "rar", "other"}

\* The bytes of the file at the head of the loop: known, or seen now.
ContentsOf(file) == IF file.content = "" THEN CollectionContents ELSE {file.content}

\* A mutant of ExitTemp: the scratch directory is left behind.
ExitTempLeak(r) == r

\* The end of the with block of line 228, however it is left (its last
\* statement, continue, return or an exception): TemporaryDirectory removes
\* the scratch directory of the iteration under way.
ExitTemp(r) == [r EXCEPT !.temp = @ \ {r.cur.index}]

\* An exception leaves start (and main, which catches KeyboardInterrupt
\* only): the with block, if entered, is left, and the run is over.
Crash(r, exception) ==
    [ExitTemp(r) EXCEPT !.phase = "ended", !.raised = exception,
                        !.pc = "", !.cur = NoCurrent]

\* convert_collection, one iteration: get_archive, then the target
\* variant's convert (the new container replaces the old file, or the
\* conversion fails and returns nothing).
ConvertFile ==
    /\ run # Idle
    /\ run.phase = "convert"
    /\ run.todo # <<>>
    /\ LET i == Head(run.todo)
       IN  \E content \in ContentsOf(run.files[i]), ok \in BOOLEAN :
             LET seen == [run EXCEPT !.files[i].content = content]
             IN  run' =
                   IF get_archive(SignaturesOf(content), run.py7zr_loaded) = "raise"
                   THEN Crash(seen, "NotImplementedError")
                   ELSE IF ok
                   THEN [seen EXCEPT !.todo = Tail(@),
                                     !.files[i].path = "a" \o ToString(i) \o ".cbz",
                                     !.files[i].ext = "cbz",
                                     !.files[i].content = "zip",
                                     !.files[i].converted = TRUE]
                   ELSE [seen EXCEPT !.todo = Tail(@)]
    /\ UNCHANGED <<archive, result, fetch, folder, call, search>>

\* start, line 211: the conversion pass is over; list the files of the
\* target format.
ListCollection ==
    /\ run # Idle
    /\ run.phase = "convert"
    /\ run.todo = <<>>
    /\ run' = [run EXCEPT !.phase = "process", !.pc = "open",
                          !.todo = list_files(run.files, {"cbz"}, 1)]
    /\ UNCHANGED <<archive, result, fetch, folder, call, search>>

\* The Metadata.xml entries an archive of the collection can hold (the
\* other two entries are left out of this specification).
StampedEntries ==
    {Absent}
    \cup { [name |-> PlainName("Metadata"), valid |-> TRUE,
            doc |-> MkMetadata("P", "T1", "1", Meta(d, t))] :
             d \in StampDates, t \in Tools }

\* The Metadata.xml entry of the file at the head of the loop: the one a run
\* has written, or seen now.
EntriesOfFile(file) == IF file.entry = None THEN StampedEntries ELSE {file.entry}

\* The archive handed to read_archive.  An archive dispatched on bytes that
\* are no container cannot be listed.
Opened(file, entry) ==
    [ stem |-> "T1", readable |-> file.content # "other",
      entries |-> [s \in Schemas |-> IF s = "Metadata" THEN entry ELSE Absent] ]

\* start, lines 212-218: get_archive, read_archive and the freshness gate.
Open ==
    /\ run # Idle
    /\ run.phase = "process"
    /\ run.pc = "open"
    /\ run.todo # <<>>
    /\ LET i == Head(run.todo)
       IN  \E content \in ContentsOf(run.files[i]), entry \in EntriesOfFile(run.files[i]) :
             LET seen == [run EXCEPT !.files[i].content = content]
                 variant == get_archive(SignaturesOf(content), run.py7zr_loaded)
                 metadata == read_archive(Opened(seen.files[i], entry)).metadata
             IN  run' =
                   IF variant = "raise"
                   THEN Crash(seen, "NotImplementedError")
                   ELSE IF IsSkipped(run.force, metadata.meta)
                   THEN [seen EXCEPT !.files[i].read = TRUE,
                                     !.files[i].skipped = TRUE,
                                     !.cur = [NoCurrent EXCEPT !.index = i,
                                                               !.metadata = metadata],
                                     !.todo = Tail(@)]
                   ELSE [seen EXCEPT !.files[i].read = TRUE,
                                     !.cur = [index |-> i, variant |-> variant,
                                              metadata |-> metadata, new_file |-> "",
                                              entry |-> entry],
                                     !.pc = "enrich"]
    /\ UNCHANGED <<archive, result, fetch, folder, call, search>>

\* start, lines 222-227: fetch_from_services (which leaves the series title
\* as it was or sets the catalog's), then generate_filename.
Enrich ==
    /\ run # Idle
    /\ run.pc = "enrich"
    /\ LET i == Head(run.todo)
       IN  \E title \in Titles :
             LET metadata == [run.cur.metadata EXCEPT !.issue.series.title = title]
             IN  run' = [run EXCEPT !.files[i].enriched = TRUE,
                                    !.files[i].target = generate_filename("cbz", metadata),
                                    !.cur.metadata = metadata,
                                    !.cur.new_file = generate_filename("cbz", metadata),
                                    !.pc = "mktemp"]
    /\ UNCHANGED <<archive, result, fetch, folder, call, search>>

\* start, lines 228-229: the with block is entered and TemporaryDirectory
\* makes the scratch directory of this iteration.
MakeTemp ==
    /\ run # Idle
    /\ run.pc = "mktemp"
    /\ run' = [run EXCEPT !.temp = @ \cup {run.cur.index}, !.pc = "extract"]
    /\ UNCHANGED <<archive, result, fetch, folder, call, search>>

\* start, line 231: "return" - the with block is left and start is over.
AfterExtractFailure(r) ==
    [ExitTemp(r) EXCEPT !.phase = "ended", !.pc = "", !.cur = NoCurrent]

\* start, line 230: the archive is extracted into the scratch directory;
\* bytes that are no container cannot be extracted.
Extract ==
    /\ run # Idle
    /\ run.pc = "extract"
    /\ LET i == Head(run.todo)
       IN  \E ok \in (IF run.files[i].content = "other" THEN {FALSE} ELSE BOOLEAN) :
             run' =
               IF ok
               THEN [run EXCEPT !.files[i].extracted = TRUE, !.pc = "write"]
               ELSE AfterExtractFailure([run EXCEPT !.files[i].extract_failed = TRUE])
    /\ UNCHANGED <<archive, result, fetch, folder, call, search>>

\* A mutant of NewStamp: the stamp is dated FreshDays ago.
NewStampStale == Meta(-FreshDays, DefaultTool)

\* Line 239: Meta(date_=date.today()), the tool being the default Tool().
NewStamp == Meta(0, DefaultTool)

\* Line 241: metadata.to_file(file=temp_folder / "Metadata.xml")
to_file(metadata) ==
    [name |-> PlainName("Metadata"), valid |-> TRUE, doc |-> metadata]

\* start, lines 232-245: process_pages, the new provenance stamp, and the
\* metadata files written into the scratch directory.  Renaming an image or
\* writing a file can raise OSError, which nothing catches.
Write ==
    /\ run # Idle
    /\ run.pc = "write"
    /\ \E error \in BOOLEAN :
         run' =
           IF error
           THEN Crash([run EXCEPT !.files[Head(run.todo)].write_failed = TRUE], "OSError")
           ELSE LET metadata == [run.cur.metadata EXCEPT !.meta = NewStamp]
                IN  [run EXCEPT !.cur.metadata = metadata,
                                !.cur.entry = IF run.create_metadata
                                              THEN to_file(metadata) ELSE @,
                                !.pc = "rearchive"]
    /\ UNCHANGED <<archive, result, fetch, folder, call, search>>

\* start, lines 246-249: archive_files.  CBRArchive.archive_files takes
\* (src, output_name) and raises NotImplementedError; called with
\* filename=..., the call itself raises TypeError.  The other variants
\* return the new container or nothing; on nothing the loop continues.
Rearchive ==
    /\ run # Idle
    /\ run.pc = "rearchive"
    /\ LET i == Head(run.todo)
       IN  \E ok \in BOOLEAN :
             run' =
               IF run.cur.variant = "CBRArchive"
               THEN Crash([run EXCEPT !.files[i].archive_failed = TRUE], "TypeError")
               ELSE IF ok
               THEN [run EXCEPT !.pc = "unlink"]
               ELSE [ExitTemp(run) EXCEPT !.files[i].archive_failed = TRUE,
                                          !.todo = Tail(@), !.pc = "open",
                                          !.cur = NoCurrent]
    /\ UNCHANGED <<archive, result, fetch, folder, call, search>>

\* start, line 250: archive.path.unlink(missing_ok=True)
Unlink ==
    /\ run # Idle
    /\ run.pc = "unlink"
    /\ run' = [run EXCEPT !.files[Head(run.todo)].present = FALSE, !.pc = "move"]
    /\ UNCHANGED <<archive, result, fetch, folder, call, search>>

\* start, line 251: shutil.move(archive_file, archive.path), and the end of
\* the with block, which removes the scratch directory.  The move can raise
\* OSError, which nothing catches.
MoveNew ==
    /\ run # Idle
    /\ run.pc = "move"
    /\ \E error \in BOOLEAN :
         run' =
           IF error
           THEN Crash(run, "OSError")
           ELSE [ExitTemp(run) EXCEPT !.files[Head(run.todo)].present = TRUE,
                                      !.files[Head(run.todo)].rewritten = TRUE,
                                      !.files[Head(run.todo)].entry = run.cur.entry,
                                      !.pc = "organize"]
    /\ UNCHANGED <<archive, result, fetch, folder, call, search>>

\* A mutant of MustMove: every rewritten archive is moved.
MustMoveAlways(file, new_file) == TRUE

\* Lines 252-254: file.relative_to(root) != new_file.relative_to(root)
MustMove(file, new_file) == file.path # new_file

\* A mutant of shutil_move: a file at the destination is left alone.
shutil_move_sparing(files, i, dir, new_file) ==
    [files EXCEPT ![i].path = new_file, ![i].dir = dir, ![i].moved = TRUE]

\* Line 260, shutil.move(file, new_file): the file is renamed; a file that
\* sits at new_file already is replaced by it.
shutil_move(files, i, dir, new_file) ==
    [j \in DOMAIN files |->
        IF j = i
        THEN [files[j] EXCEPT !.path = new_file, !.dir = dir, !.moved = TRUE]
        ELSE IF files[j].present /\ files[j].path = new_file
        THEN [files[j] EXCEPT !.replaced = TRUE]
        ELSE files[j]]

\* start, lines 252-260: when the generated path differs from where the
\* file is, the parent directories of the generated path are made and the
\* file is moved there.
Organize ==
    /\ run # Idle
    /\ run.pc = "organize"
    /\ LET i == Head(run.todo)
       IN  run' =
             IF MustMove(run.files[i], run.cur.new_file)
             THEN [run EXCEPT !.dirs = @ \cup {ParentOf(run.cur.metadata)},
                              !.files = shutil_move(@, i, ParentOf(run.cur.metadata),
                                                    run.cur.new_file),
                              !.todo = Tail(@), !.pc = "open", !.cur = NoCurrent]
             ELSE [run EXCEPT !.todo = Tail(@), !.pc = "open", !.cur = NoCurrent]
    /\ UNCHANGED <<archive, result, fetch, folder, call, search>>

\* start: the for loop is exhausted and start returns.
Return ==
    /\ run # Idle
    /\ run.phase = "process"
    /\ run.pc = "open"
    /\ run.todo = <<>>
    /\ run' = [run EXCEPT !.phase = "ended", !.pc = "", !.cur = NoCurrent]
    /\ UNCHANGED <<archive, result, fetch, folder, call, search>>

NextStart ==
    \/ ConvertFile \/ ListCollection \/ Open \/ Enrich \/ MakeTemp \/ Extract \/ Write
    \/ Rearchive \/ Unlink \/ MoveNew \/ Organize \/ Return

SpecStart == InitStart /\ [][NextStart]_vars

(***************************************************************************)
(* A run of start followed by a second run with force=false on what the    *)
(* first run left (SpecRerun).                                             *)
(***************************************************************************)
\* The collections of one archive.
SingleCollections == { files \in Collections : Len(files) = 1 }

InitRerun == InitRun(SingleCollections, BOOLEAN)

\* A file as the next run finds it: where the run before left it, with the
\* container that run wrote, if it wrote one.  An archive that was replaced
\* by another one is no file of the collection any more.
Again(file) ==
    [File(file.dir, file.path, file.ext) EXCEPT
        !.present = file.present /\ ~file.replaced,
        !.content = file.content,
        !.entry = file.entry]

\* start is called again, with force=false and the same settings, as soon
\* as the first run is over (on the same day).
StartAgain ==
    /\ run # Idle
    /\ run.phase = "ended"
    /\ run.round = 1
    /\ LET files == [i \in DOMAIN run.files |-> Again(run.files[i])]
       IN  run' = [run EXCEPT !.round = 2,
                              !.first = run.files,
                              !.force = FALSE,
                              !.files = files,
                              !.phase = "convert",
                              !.todo = list_files(files, Extensions \ {"cbz"}, 1),
                              !.pc = "",
                              !.cur = NoCurrent,
                              !.raised = ""]
    /\ UNCHANGED <<archive, result, fetch, folder, call, search>>

NextRerun == NextStart \/ StartAgain

SpecRerun == InitRerun /\ [][NextRerun]_vars

(***************************************************************************)
(* Claims about read_archive (SpecRead).                                   *)
(***************************************************************************)
\* The entry of the schema is listed and its bytes validate.
ValidEntry(s) ==
    archive.readable /\ archive.entries[s].name # "" /\ archive.entries[s].valid

\* The entry of the schema is listed and its bytes do not validate.
InvalidEntry(s) ==
    archive.readable /\ archive.entries[s].name # "" /\ ~archive.entries[s].valid

Returned == archive # Idle /\ result # None

\* The fields all three schemas support: publisher, series title, issue number.
SharedOfMetadata(m) ==
    <<m.issue.series.publisher.title, m.issue.series.title, m.issue.number>>
SharedOfMetron(m) == <<m.publisher.value, m.series.name, m.number>>
SharedOfComic(c) == <<c.publisher, c.series, c.number>>

\* C1: when Metadata.xml is absent or invalid, the canonical metadata comes
\* from MetronInfo if one parsed, else from ComicInfo if one parsed, else from
\* create_metadata; ComicInfo is never used while a MetronInfo parsed, and
\* nothing is synthesized while an interchange schema parsed.
C1_Precedence ==
    (Returned /\ ~ValidEntry("Metadata")) =>
        IF ValidEntry("MetronInfo")
        THEN /\ result.via = "metron_to_metadata"
             /\ result.metadata = metron_to_metadata(archive.entries["MetronInfo"].doc)
        ELSE IF ValidEntry("ComicInfo")
        THEN /\ result.via = "comic_to_metadata"
             /\ result.metadata = comic_to_metadata(archive.entries["ComicInfo"].doc)
        ELSE /\ result.via = "create_metadata"
             /\ result.metadata = create_metadata(archive)

\* C1 witness: Metadata.xml failed validation, both interchange files parsed
\* with different titles, and the metadata was derived from MetronInfo.
C1_Witness ==
    /\ Returned
    /\ InvalidEntry("Metadata")
    /\ ValidEntry("MetronInfo") /\ ValidEntry("ComicInfo")
    /\ archive.entries["MetronInfo"].doc.series.name
         # archive.entries["ComicInfo"].doc.series
    /\ result.via = "metron_to_metadata"
    /\ result.metadata.issue.series.title = archive.entries["MetronInfo"].doc.series.name

\* C2: whatever the three entries are (absent, valid, invalid, or an empty
\* listing of an unreadable archive), read_archive returns three schemas,
\* none of them None.
C2_AllPopulated ==
    Returned =>
        /\ result.raised = ""
        /\ result.metadata # None
        /\ result.metron_info # None
        /\ result.comic_info # None

\* C2 witness: an unreadable archive (empty listing) whose three entries
\* would be there, returned with all three schemas synthesized.
C2_Witness ==
    /\ Returned
    /\ ~archive.readable
    /\ \A s \in Schemas : archive.entries[s].name # ""
    /\ result.via = "create_metadata"
    /\ result.metron_info = metadata_to_metron(create_metadata(archive))
    /\ result.comic_info = metadata_to_comic(create_metadata(archive))

\* The archive with every entry that fails validation removed.
WithoutInvalid(a) ==
    [a EXCEPT !.entries =
        [s \in Schemas |-> IF a.entries[s].name # "" /\ ~a.entries[s].valid
                           THEN Absent ELSE a.entries[s]]]

\* C3: a validation failure of one entry does not leave read_archive as an
\* exception; the result is the one the archive without that entry gives,
\* and every entry that validates is still parsed and returned as parsed.
C3_InvalidAsAbsent ==
    Returned =>
        /\ result.raised = ""
        /\ result = read_archive(WithoutInvalid(archive))
        /\ ValidEntry("Metadata") =>
              result.parsed["Metadata"] /\ result.metadata = archive.entries["Metadata"].doc
        /\ ValidEntry("MetronInfo") =>
              result.parsed["MetronInfo"]
              /\ result.metron_info = archive.entries["MetronInfo"].doc
        /\ ValidEntry("ComicInfo") =>
              result.parsed["ComicInfo"]
              /\ result.comic_info = archive.entries["ComicInfo"].doc

\* C3 witness: Metadata.xml fails validation, ComicInfo.xml (looked up after
\* it) parses, and the metadata is re-derived from ComicInfo.
C3_Witness ==
    /\ Returned
    /\ InvalidEntry("Metadata")
    /\ archive.entries["MetronInfo"] = Absent
    /\ ValidEntry("ComicInfo")
    /\ result.raised = ""
    /\ result.via = "comic_to_metadata"
    /\ result.comic_info = archive.entries["ComicInfo"].doc

\* The shared fields of the most authoritative entry that validates.
Authoritative ==
    IF ValidEntry("Metadata") THEN SharedOfMetadata(archive.entries["Metadata"].doc)
    ELSE IF ValidEntry("MetronInfo") THEN SharedOfMetron(archive.entries["MetronInfo"].doc)
    ELSE SharedOfComic(archive.entries["ComicInfo"].doc)

SomeValidEntry == \E s \in Schemas : ValidEntry(s)

\* C4 as stated: for every subset of valid entries, each returned schema
\* agrees with the most authoritative entry on the shared fields.
C4_Original ==
    (Returned /\ SomeValidEntry) =>
        /\ SharedOfMetadata(result.metadata) = Authoritative
        /\ SharedOfMetron(result.metron_info) = Authoritative
        /\ SharedOfComic(result.comic_info) = Authoritative

\* C4 amended: every returned schema whose own entry did not validate (it
\* was derived) agrees with the most authoritative entry on the shared
\* fields, so all three agree when exactly one entry validates; a schema
\* whose own entry validates is returned as parsed.
C4_DerivedConsistent ==
    (Returned /\ SomeValidEntry) =>
        /\ ~ValidEntry("Metadata") => SharedOfMetadata(result.metadata) = Authoritative
        /\ ~ValidEntry("MetronInfo") => SharedOfMetron(result.metron_info) = Authoritative
        /\ ~ValidEntry("ComicInfo") => SharedOfComic(result.comic_info) = Authoritative
        /\ Cardinality({s \in Schemas : ValidEntry(s)}) = 1 =>
              /\ SharedOfMetadata(result.metadata) = Authoritative
              /\ SharedOfMetron(result.metron_info) = Authoritative
              /\ SharedOfComic(result.comic_info) = Authoritative

\* C4 witness: only ComicInfo.xml validates, and the derived Metadata and
\* MetronInfo carry its series and number.
C4_Witness ==
    /\ Returned
    /\ ~ValidEntry("Metadata") /\ ~ValidEntry("MetronInfo") /\ ValidEntry("ComicInfo")
    /\ result.metadata.issue.series.title = archive.entries["ComicInfo"].doc.series
    /\ result.metadata.issue.number = archive.entries["ComicInfo"].doc.number
    /\ result.metron_info.series.name = archive.entries["ComicInfo"].doc.series
    /\ result.metron_info.number = archive.entries["ComicInfo"].doc.number


(***************************************************************************)
(* Claims about fetch_from_services and Comicvine.fetch (SpecFetch).       *)
(***************************************************************************)
Fetching == fetch # Idle

\* The position of a service in the fixed order Marvel, Metron, Comicvine,
\* League.
Rank(service) ==
    CASE service = "Marvel" -> 1
      [] service = "Metron" -> 2
      [] service = "Comicvine" -> 3
      [] OTHER -> 4

\* The service's full credential set is present in the settings.
HasFullCredentials(service) ==
    LET c == fetch.settings[service]
    IN  IF service = "Comicvine"
        THEN c.section /\ c.first
        ELSE c.section /\ c.first /\ c.second

\* C5: only services with their full credential set are asked, in the order
\* Marvel, Metron, Comicvine, League; a service is asked only after every
\* configured service before it returned failure, none after a success, and
\* fetch_from_services ends without success only when all were asked.
C5_FirstSuccessStops ==
    Fetching =>
        /\ \A i \in DOMAIN fetch.calls :
             /\ HasFullCredentials(fetch.calls[i].service)
             /\ \A j \in 1..(i - 1) :
                  /\ Rank(fetch.calls[j].service) < Rank(fetch.calls[i].service)
                  /\ fetch.calls[j].ok = "failure"
             /\ \A sv \in {"Marvel", "Metron", "Comicvine", "League"} :
                  (HasFullCredentials(sv) /\ Rank(sv) < Rank(fetch.calls[i].service))
                     => \E j \in 1..(i - 1) : fetch.calls[j].service = sv
        /\ (fetch.pc = "done" /\ \A i \in DOMAIN fetch.calls : fetch.calls[i].ok # "success")
              => \A sv \in {"Marvel", "Metron", "Comicvine", "League"} :
                    HasFullCredentials(sv)
                       => \E i \in DOMAIN fetch.calls : fetch.calls[i].service = sv

\* C5 witness: Marvel failed, Metron lacks a credential and was passed over,
\* Comicvine succeeded, and League, though configured, was never asked.
C5_Witness ==
    /\ Fetching
    /\ fetch.pc = "done"
    /\ fetch.calls = <<Call("Marvel", "failure"), Call("Comicvine", "success")>>
    /\ fetch.settings["Metron"].section /\ ~HasFullCredentials("Metron")
    /\ HasFullCredentials("League")

\* C6 as stated: when no service is configured or every fetch failed, the
\* three objects are what they were before fetch_from_services.
C6_UnchangedOnFailure ==
    (Fetching /\ fetch.pc = "done" /\ fetch.success # "yes") => fetch.m = fetch.before

\* The stage of Comicvine.fetch at position i resolved an identifier that
\* the search found under the scope it was given.
ScopedSearch(i) ==
    LET st == fetch.stages[i]
    IN  (st.searched /\ st.id # NoId) =>
            IF st.op = "series" THEN VolumePublisher(st.id) = st.scope
            ELSE IF st.op = "issue" THEN IssueVolume(st.id) = st.scope
            ELSE TRUE

ComicvineCall ==
    { fetch.calls[i].ok : i \in { k \in DOMAIN fetch.calls : fetch.calls[k].service = "Comicvine" } }

\* C7: Comicvine.fetch resolves publisher, series, issue in that order; the
\* series stage runs only after the publisher resolved and under the
\* publisher's id, the issue stage only after the series resolved and under
\* the series' id; a stage that resolves nothing is the last one and makes
\* fetch return failure; fetch returns success only with all three resolved.
C7_StagesInOrder ==
    Fetching =>
        LET st == fetch.stages
        IN  /\ Len(st) <= 3
            /\ Len(st) >= 1 => st[1].op = "publisher"
            /\ Len(st) >= 2 =>
                  /\ st[2].op = "series"
                  /\ st[1].ok
                  /\ st[2].scope = st[1].id
                  /\ ScopedSearch(2)
            /\ Len(st) >= 3 =>
                  /\ st[3].op = "issue"
                  /\ st[2].ok
                  /\ st[3].scope = st[2].id
                  /\ ScopedSearch(3)
            /\ \A i \in DOMAIN st :
                  /\ st[i].ok => st[i].id # NoId
                  /\ ~st[i].ok => (i = Len(st) /\ ComicvineCall = {"failure"})
            /\ "success" \in ComicvineCall =>
                  (Len(st) = 3 /\ \A i \in DOMAIN st : st[i].ok)

\* C7 witness: fetch returned success after three stages, each of which
\* found its identifier by searching.
C7_Witness ==
    /\ Fetching
    /\ ComicvineCall = {"success"}
    /\ Len(fetch.stages) = 3
    /\ \A i \in DOMAIN fetch.stages : fetch.stages[i].searched /\ fetch.stages[i].ok
    /\ fetch.stages[2].scope = fetch.stages[1].id
    /\ fetch.stages[3].scope = fetch.stages[2].id


(***************************************************************************)
(* Claims about start (SpecStart).                                         *)
(***************************************************************************)
Running == run # Idle

\* The stamp read_archive returned for the file the loop looked at last is
\* still the one in the loop's metadata (it is replaced after
\* process_pages).
StampInHand ==
    /\ run.cur.index # 0
    /\ run.cur.metadata # None
    /\ run.pc \in {"open", "enrich", "mktemp", "extract", "write"}

\* The path at which the processing loop finds the file (a converted file
\* took the target extension).
OriginalPath(i) ==
    IF run.files[i].converted THEN "a" \o ToString(i) \o ".cbz"
    ELSE run.files[i].origin

\* C8: with force=false an archive is skipped exactly when its stamp's tool
\* is the default tool signature and its date is less than 28 days from
\* today; a skipped archive is not enriched, extracted, rewritten or moved;
\* with force=true no archive is skipped.
C8_FreshnessGate ==
    Running =>
        /\ StampInHand =>
              (run.files[run.cur.index].skipped
                 <=> /\ ~run.force
                     /\ run.cur.metadata.meta.tool = DefaultTool
                     /\ run.cur.metadata.meta.date_ < FreshDays
                     /\ run.cur.metadata.meta.date_ > -FreshDays)
        /\ \A i \in DOMAIN run.files :
              run.files[i].skipped =>
                 /\ ~run.force
                 /\ ~run.files[i].enriched /\ ~run.files[i].extracted
                 /\ ~run.files[i].rewritten /\ ~run.files[i].moved
                 /\ run.files[i].present
                 /\ run.files[i].path = OriginalPath(i)

\* C8 witness: without force, the first archive, stamped by the default
\* tool 27 days ago, was skipped, and the second, stamped by the default
\* tool 28 days ago, went on to enrichment.
C8_Witness ==
    /\ Running
    /\ ~run.force
    /\ Len(run.files) >= 2
    /\ run.files[1].skipped
    /\ run.cur.index = 2
    /\ run.pc = "enrich"
    /\ ~run.files[2].skipped
    /\ run.cur.metadata.meta = Meta(-FreshDays, DefaultTool)

\* The files the processing loop iterates over.
InLoop(i) == run.files[i].ext = "cbz"

\* C9 as stated: an archive that cannot be extracted or re-archived stays
\* where it was, and every later archive of the collection is still read in
\* the same run (here: in a run that no exception ended).
C9_FailureIsLocal ==
    (Running /\ run.phase = "ended" /\ run.raised = "") =>
        \A i \in DOMAIN run.files :
            (run.files[i].extract_failed \/ run.files[i].archive_failed) =>
                /\ run.files[i].present
                /\ run.files[i].path = OriginalPath(i)
                /\ \A j \in DOMAIN run.files : (j > i /\ InLoop(j)) => run.files[j].read

\* C10 as stated: an archive of unsupported format (get_archive raises, or
\* the variant cannot create archives) is fatal for that file only: it does
\* not stop the run, so when the run is over (and no extraction failure
\* ended it) every archive of the collection has been looked at.
C10_UnsupportedIsLocal ==
    (Running /\ run.phase = "ended"
       /\ \A i \in DOMAIN run.files : ~run.files[i].extract_failed)
        => \A j \in DOMAIN run.files : run.files[j].content # ""

\* The with block of lines 228-251 is being executed.
InWith == run.pc \in {"extract", "write", "rearchive", "unlink", "move"}

\* C11: the scratch directory of an archive exists exactly while the with
\* block of that archive is being executed: it is made right before the
\* extraction, it is gone after the rewrite, after an extraction failure, a
\* re-archive failure and an error of page synchronization or metadata
\* writing, and two scratch directories never exist at once.
C11_ScratchScoped ==
    Running =>
        /\ Cardinality(run.temp) <= 1
        /\ InWith => run.temp = {run.cur.index}
        /\ ~InWith => run.temp = {}
        /\ run.pc = "extract" => ~run.files[run.cur.index].extracted
        /\ \A i \in DOMAIN run.files :
              (\/ run.files[i].rewritten \/ run.files[i].extract_failed
               \/ run.files[i].write_failed \/ run.files[i].archive_failed)
                  => i \notin run.temp

\* C11 witness: the first archive could not be re-archived, and the second
\* archive is in its with block with its own scratch directory, the only one.
C11_Witness ==
    /\ Running
    /\ Len(run.files) >= 2
    /\ run.files[1].archive_failed
    /\ run.files[1].extracted
    /\ run.cur.index = 2
    /\ run.pc = "rearchive"
    /\ run.temp = {2}

\* The replacement of lines 250-251 is under way for the archive of the
\* iteration: archive_files returned the new container, and the move of it
\* to the archive's path has not returned yet.
Replacing == run.pc \in {"unlink", "move"}

\* C19 as stated: from the end of the re-archive to the end of the
\* replacement, the archive's path always holds a file (the original or the
\* new container), and so it does when the run is over.
C19_AtomicReplace ==
    Running =>
        /\ Replacing => run.files[run.cur.index].present
        /\ run.phase = "ended" => \A i \in DOMAIN run.files : run.files[i].present

\* The loop has finished the iteration of file i.
Finished(i) == run.cur.index # i

\* C20: a rewritten archive whose generated path differs from its path is
\* moved there, into a directory that exists, and is no longer at the old
\* path; a rewritten archive already at its generated path is not moved;
\* an archive that was not rewritten (its re-archive step failed, or it
\* never got there) is not moved.
C20_Organize ==
    Running =>
        \A i \in DOMAIN run.files :
            /\ run.files[i].dir \in run.dirs
            /\ (run.files[i].rewritten /\ Finished(i)) =>
                  /\ run.files[i].path = run.files[i].target
                  /\ run.files[i].moved <=> (run.files[i].target # OriginalPath(i))
            /\ run.files[i].moved =>
                  (run.files[i].rewritten /\ run.files[i].path # OriginalPath(i))
            /\ ~run.files[i].rewritten => run.files[i].path = OriginalPath(i)
            /\ run.files[i].archive_failed => ~run.files[i].moved

\* C20 witness: of two rewritten archives the first was at its generated
\* path already and stayed, and the second was moved from the collection
\* folder to its generated path.
C20_Witness ==
    /\ Running
    /\ Len(run.files) >= 2
    /\ run.phase = "ended"
    /\ run.files[1].rewritten /\ ~run.files[1].moved
    /\ run.files[1].path = run.files[1].origin
    /\ run.files[2].rewritten /\ run.files[2].moved
    /\ run.files[2].origin = "a2.cbz"
    /\ run.files[2].path = run.files[2].target
    /\ run.files[2].path # "a2.cbz"

\* The paths of the collection at which a file sits.
ArchivePaths(files) == { files[i].path : i \in { j \in DOMAIN files : files[j].present } }

\* C22 as stated: a run that no exception ended leaves as many archive
\* files in the collection as it found, and no archive was replaced by
\* another one moved to its path.
C22_NoArchiveLost ==
    (Running /\ run.phase = "ended" /\ run.raised = "") =>
        /\ Cardinality(ArchivePaths(run.files)) = Len(run.files)
        /\ \A i \in DOMAIN run.files : ~run.files[i].replaced

\* The provenance stamp read_archive finds in the container at the file's
\* path.
StampOf(file) == read_archive(Opened(file, file.entry)).metadata.meta

\* The archive was processed to the end by the first of two runs, with
\* Metadata.xml output enabled.
ProcessedBefore(i) ==
    /\ run.round = 2
    /\ run.create_metadata
    /\ run.first[i].rewritten

MaxImages == 3

\* new_file.stem, the base name the page images are renamed to.
BaseName == "T1"

\* A file of the directory: img_file.stem and img_file.suffix.
Name(stem, suffix) == [stem |-> stem, suffix |-> suffix]

\* img_file.name
NameOf(file) == file.stem \o file.suffix

\* The stems of the model's image files, in the order in which their names
\* sort: one that sorts before the base name, the stems rename_images
\* renames to ("T1-0", ...), the stems it compares with ("T1_0", ...), and
\* one that sorts after them.
StemOrder ==
    <<"A">>
    \o [i \in 1..MaxImages |-> BaseName \o "-" \o ToString(i - 1)]
    \o [i \in 1..MaxImages |-> BaseName \o "_" \o ToString(i - 1)]
    \o <<"b">>

\* perdoo.IMAGE_EXTENSIONS, in sort order.
IMAGE_EXTENSIONS == <<".jpg", ".png">>

Position(seq, x) == CHOOSE i \in DOMAIN seq : seq[i] = x

\* The order of two image files by name.
Before(a, b) ==
    \/ Position(StemOrder, a.stem) < Position(StemOrder, b.stem)
    \/ /\ a.stem = b.stem
       /\ Position(IMAGE_EXTENSIONS, a.suffix) < Position(IMAGE_EXTENSIONS, b.suffix)

ImageNames ==
    { Name(StemOrder[i], IMAGE_EXTENSIONS[j]) :
        i \in DOMAIN StemOrder, j \in DOMAIN IMAGE_EXTENSIONS }

\* The directories extract_files can leave: up to MaxImages images, with or
\* without a metadata file beside them.
Folders ==
    { images \cup other :
        images \in { S \in SUBSET ImageNames : Cardinality(S) <= MaxImages },
        other \in { {}, {Name("ComicInfo", ".xml")} } }

RECURSIVE SortNames(_)
SortNames(S) ==
    IF S = {} THEN <<>>
    ELSE LET first == CHOOSE x \in S : \A y \in S \ {x} : Before(x, y)
         IN  <<first>> \o SortNames(S \ {first})

\* list_files(folder, *IMAGE_EXTENSIONS): the image files, sorted by name.
list_image_files(names) ==
    SortNames({ f \in names :
                  \E j \in DOMAIN IMAGE_EXTENSIONS : f.suffix = IMAGE_EXTENSIONS[j] })

\* Path.rename: the file is known under the new name only; a file that had
\* that name is replaced.
Rename(names, file, target) == (names \ {file}) \cup {target}

\* The loop of rename_images from position index on.  The name compared
\* with is built with "_", the name renamed to with "-".
RECURSIVE RenameFrom(_, _, _, _, _)
RenameFrom(names, image_list, index, filename, renames) ==
    IF index >= Len(image_list)
    THEN [names |-> names, renames |-> renames]
    ELSE LET img_file == image_list[index + 1]
             pad_count == Len(ToString(Len(image_list)))
             new_filename == filename \o "_" \o Zfill(ToString(index), pad_count)
                             \o img_file.suffix
             target == Name(filename \o "-" \o Zfill(ToString(index), pad_count),
                            img_file.suffix)
         IN  IF NameOf(img_file) # new_filename
             THEN RenameFrom(Rename(names, img_file, target), image_list, index + 1,
                             filename,
                             Append(renames, [from |-> img_file, to |-> target]))
             ELSE RenameFrom(names, image_list, index + 1, filename, renames)

\* rename_images: the directory afterwards and the renames made, in order.
rename_images(names, filename) ==
    RenameFrom(names, list_image_files(names), 0, filename, <<>>)

\* A page entry.  MetronInfo and ComicInfo call the index "image"; file
\* stands for what the schema derives from the image file; double is a flag
\* set by hand.
Page(index, final, file, double) ==
    [index |-> index, final |-> final, file |-> file, double |-> double]

\* <Schema>Page.from_path: a fresh entry that carries the flags of page.
from_path(file, index, is_final_page, page) ==
    Page(index, is_final_page, file, IF page = None THEN FALSE ELSE page.double)

\* next((x for x in pages if x.index == index), None)
FindPage(pages, index) ==
    LET hits == { k \in DOMAIN pages : pages[k].index = index }
    IN  IF hits = {} THEN None
        ELSE pages[CHOOSE k \in hits : \A j \in hits : k <= j]

\* sorted(pages): pages order by index.
RECURSIVE SortPages(_)
SortPages(S) ==
    IF S = {} THEN <<>>
    ELSE LET first == CHOOSE x \in S : \A y \in S : x.index <= y.index
         IN  <<first>> \o SortPages(S \ {first})

\* A mutant of IsFinalPage: the flag is set one page late.
IsFinalPageLate(index, image_list) == index = Len(image_list)

\* is_final_page = index == len(image_list) - 1
IsFinalPage(index, image_list) == index = Len(image_list) - 1

\* process_pages: rename the images, list them again, and rebuild the page
\* list of each schema from the listing and the schema's old list.
process_pages(names, pages, filename) ==
    LET renamed == rename_images(names, filename)
        image_list == list_image_files(renamed.names)
        Rebuilt(old) ==
            SortPages({ from_path(image_list[index + 1], index,
                                  IsFinalPage(index, image_list), FindPage(old, index)) :
                          index \in 0..(Len(image_list) - 1) })
    IN  [ names   |-> renamed.names,
          renames |-> renamed.renames,
          pages   |-> [s \in Schemas |-> Rebuilt(pages[s])] ]

\* The page lists an archive's schema can hold before synchronization: none,
\* a first page flagged by hand, and that page with a page past the images.
OldPages ==
    { <<>>,
      <<Page(0, FALSE, Name("old", ".jpg"), TRUE)>>,
      <<Page(0, FALSE, Name("old", ".jpg"), TRUE),
        Page(MaxImages, TRUE, Name("old", ".jpg"), TRUE)>> }

InitPages ==
    /\ archive = Idle /\ result = Idle /\ fetch = Idle /\ run = Idle
    /\ call = Idle /\ search = Idle
    /\ \E names \in Folders, canonical \in OldPages, interchange \in OldPages :
         folder = [ names    |-> names,
                    filename |-> BaseName,
                    pages    |-> [s \in Schemas |->
                                    IF s = "Metadata" THEN canonical ELSE interchange],
                    renames  |-> <<>>,
                    lists    |-> <<>> ]

\* One call of process_pages on the directory with the base name.  renames
\* and lists record, per call, the renames it made and the page lists it
\* left.
ProcessPages ==
    /\ folder # Idle
    /\ Len(folder.lists) < 2
    /\ LET done == process_pages(folder.names, folder.pages, folder.filename)
       IN  folder' = [folder EXCEPT
                        !.names = done.names,
                        !.pages = done.pages,
                        !.renames = Append(@, done.renames),
                        !.lists = Append(@, done.pages)]
    /\ UNCHANGED <<archive, result, fetch, run, call, search>>

NextPages == ProcessPages

SpecPages == InitPages /\ [][NextPages]_vars

(***************************************************************************)
(* Claims about process_pages (SpecPages).                                 *)
(***************************************************************************)
Synchronized(times) == folder # Idle /\ Len(folder.lists) >= times

\* C12 as stated: a second process_pages on the directory the first one
\* left, with the same base name, renames no image and leaves the page lists
\* of the first; and an image is renamed only if its name is not already
\* "<base-name>-<padded-index><suffix>".
C12_Idempotent ==
    Synchronized(2) =>
        /\ folder.renames[2] = <<>>
        /\ folder.lists[2] = folder.lists[1]
        /\ \A call_ \in 1..2 : \A k \in DOMAIN folder.renames[call_] :
              folder.renames[call_][k].from # folder.renames[call_][k].to

Dispatched == call # Idle /\ call.fn = "get_archive" /\ call.returned

\* C14 as stated: get_archive returns the variant of the first signature
\* check that passes, in the order zip, rar, tar, 7z (the 7z check exists
\* only with py7zr installed), and for a file on which none of them passes
\* it raises NotImplementedError, whatever the extension.
C14_Dispatch ==
    Dispatched =>
        call.value =
            IF "zip" \in call.signatures THEN "CBZArchive"
            ELSE IF "rar" \in call.signatures THEN "CBRArchive"
            ELSE IF "tar" \in call.signatures THEN "CBTArchive"
            ELSE IF call.py7zr_loaded /\ "7z" \in call.signatures THEN "CB7Archive"
            ELSE "raise"

(***************************************************************************)
(* generate_filename applied to one metadata (SpecName).                   *)
(***************************************************************************)
Formats == {COMIC, ANNUAL, DIGITAL_CHAPTER, GRAPHIC_NOVEL, HARDCOVER, TRADE_PAPERBACK}

\* Issue numbers as recorded: none, and one to four digits.
IssueNumbers == {"", "5", "12", "123", "1234"}

\* settings.output.format.value
OutputFormats == {"cbz", "cbt", "cb7"}

InitName ==
    /\ archive = Idle /\ result = Idle /\ fetch = Idle /\ run = Idle
    /\ folder = Idle /\ search = Idle
    /\ \E title \in Titles \cup {DirtyTitle}, volume \in 1..MaxVolume,
          number \in IssueNumbers, format \in Formats, extension \in OutputFormats :
         call = [ fn        |-> "generate_filename",
                  extension |-> extension,
                  metadata  |-> [MkMetadata("P", title, number, Meta(0, DefaultTool))
                                   EXCEPT !.issue.format = format,
                                          !.issue.series.volume = volume],
                  returned  |-> FALSE,
                  value     |-> "" ]

\* The call of generate_filename on the metadata.
GenerateFilename ==
    /\ call # Idle
    /\ call.fn = "generate_filename"
    /\ ~call.returned
    /\ call' = [call EXCEPT !.returned = TRUE,
                            !.value = generate_filename(call.extension, call.metadata)]
    /\ UNCHANGED <<archive, result, fetch, run, folder, search>>

NextName == GenerateFilename

SpecName == InitName /\ [][NextName]_vars

(***************************************************************************)
(* Claims about generate_filename (SpecName).                              *)
(***************************************************************************)
Named == call # Idle /\ call.fn = "generate_filename" /\ call.returned

\* The series title as a path segment holds it.
SegmentOf(title) == IF title = DirtyTitle THEN CleanTitle ELSE title

\* A number of the model padded with zeros to at least digits characters.
PaddedTo(number, digits) ==
    IF Len(number) >= digits THEN number
    ELSE IF digits - Len(number) = 1 THEN "0" \o number
    ELSE "00" \o number

\* C15: the issue file name is <series>[_#<number to 3 digits>] for the
\* default kind, <series>_<Suffix>[_#<number to 2 digits>] for Annual and
\* Digital Chapter, <series>[_#<number to 2 digits>]_<Suffix> for Graphic
\* Novel, Hardcover and Trade Paperback; the number part is left out when no
\* number is recorded; the series segment ends in " v<volume>" exactly when
\* the volume is above 1.
C15_FilenameByKind ==
    Named =>
        LET issue == call.metadata.issue
            series == SegmentOf(issue.series.title)
                      \o (IF issue.series.volume > 1
                          THEN " v" \o ToString(issue.series.volume) ELSE "")
            Number(digits) ==
                IF issue.number = "" THEN "" ELSE "_#" \o PaddedTo(issue.number, digits)
            name ==
                CASE issue.format = COMIC -> series \o Number(3)
                  [] issue.format = ANNUAL -> series \o "_Annual" \o Number(2)
                  [] issue.format = DIGITAL_CHAPTER -> series \o "_Chapter" \o Number(2)
                  [] issue.format = GRAPHIC_NOVEL -> series \o Number(2) \o "_GN"
                  [] issue.format = HARDCOVER -> series \o Number(2) \o "_HC"
                  [] issue.format = TRADE_PAPERBACK -> series \o Number(2) \o "_TP"
        IN  call.value = "P/" \o series \o "/" \o name \o "." \o call.extension

\* C15 witness: a graphic novel, number 5, of volume 2 of T1 is named
\* "T1 v2_#05_GN" under the series segment "T1 v2".
C15_Witness ==
    /\ Named
    /\ call.metadata.issue.format = GRAPHIC_NOVEL
    /\ call.metadata.issue.number = "5"
    /\ call.metadata.issue.series.title = "T1"
    /\ call.metadata.issue.series.volume = 2
    /\ call.extension = "cbz"
    /\ call.value = "P/T1 v2/T1 v2_#05_GN.cbz"

(***************************************************************************)
(* Claims about the merges and lookups of Comicvine (SpecFetch).           *)
(***************************************************************************)
\* The resources of the publisher, the series and the issue of a metadata.
ResourcesOf(metadata, op) ==
    CASE op = "publisher" -> metadata.issue.series.publisher.resources
      [] op = "series" -> metadata.issue.series.resources
      [] OTHER -> metadata.issue.resources

\* The stages of Comicvine.fetch that resolved the entity and merged it.
Merged(op) == { i \in DOMAIN fetch.stages : fetch.stages[i].op = op /\ fetch.stages[i].ok }

\* Merging the entity identified by id into the metadata once more.
MergedAgain(op, id) ==
    CASE op = "publisher" -> add_publisher_to_metadata(get_publisher(id), fetch.m.metadata)
      [] op = "series" -> add_series_to_metadata(get_volume(id), fetch.m.metadata)
      [] OTHER -> add_issue_to_metadata(get_issue(id), fetch.m.metadata)

\* C16: the resources of an entity Comicvine merged are those it had before
\* together with the pair (COMICVINE, id): the identifiers of other sources
\* are all still there, no pair occurs twice, and merging the same
\* identifier again changes nothing; the resources of an entity Comicvine
\* did not merge are those it had.
C16_ResourcesUnion ==
    Fetching =>
        \A op \in {"publisher", "series", "issue"} :
            LET before == SetOf(ResourcesOf(fetch.before.metadata, op))
                now == ResourcesOf(fetch.m.metadata, op)
            IN  /\ Len(now) = Cardinality(SetOf(now))
                /\ \A r \in before : r.source # COMICVINE => r \in SetOf(now)
                /\ Merged(op) = {} => SetOf(now) = before
                /\ \A i \in Merged(op) :
                      /\ SetOf(now) = before \cup {Resource(COMICVINE, fetch.stages[i].id)}
                      /\ ResourcesOf(MergedAgain(op, fetch.stages[i].id), op) = now

\* C16 witness: publisher and series each held an identifier of another
\* source and none of Comicvine, the searches found their Comicvine
\* identifiers, and each now holds both, once.
C16_Witness ==
    /\ Fetching
    /\ Len(fetch.stages) >= 2
    /\ \A i \in 1..2 : fetch.stages[i].ok /\ fetch.stages[i].searched
    /\ \A op \in {"publisher", "series"} :
          SetOf(ResourcesOf(fetch.before.metadata, op)) = {Resource(METRON, 1)}
    /\ SetOf(ResourcesOf(fetch.m.metadata, "publisher"))
         = {Resource(METRON, 1), Resource(COMICVINE, fetch.stages[1].id)}
    /\ SetOf(ResourcesOf(fetch.m.metadata, "series"))
         = {Resource(METRON, 1), Resource(COMICVINE, fetch.stages[2].id)}
    /\ Len(ResourcesOf(fetch.m.metadata, "series")) = 2

\* The Comicvine identifiers the metadata held for the entity before the
\* fetch.
StoredIds(op) ==
    { r.value : r \in { x \in SetOf(ResourcesOf(fetch.before.metadata, op)) :
                          x.source = COMICVINE } }

\* The identifier MetronInfo held for the entity before the fetch.
MetronIdOf(op) ==
    CASE op = "publisher" -> fetch.before.metron_info.publisher.id
      [] op = "series" -> fetch.before.metron_info.series.id
      [] OTHER -> IF fetch.before.metron_info.id = None THEN NoId
                  ELSE fetch.before.metron_info.id.value

\* MetronInfo's top-level id names Comic Vine as its source.
MetronFromComicVine ==
    /\ fetch.before.metron_info.id # None
    /\ fetch.before.metron_info.id.source = COMIC_VINE

\* C17: each stage takes its identifier from the metadata's resources
\* tagged COMICVINE if there is one; else from MetronInfo, but only if
\* MetronInfo's top-level id names Comic Vine; and the interactive search is
\* started only if neither gave an identifier.  With a top-level id that is
\* absent or names another source, MetronInfo's identifier is not used.
C17_LookupOrder ==
    Fetching =>
        \A i \in DOMAIN fetch.stages :
            LET st == fetch.stages[i]
                stored == StoredIds(st.op)
                usable == MetronFromComicVine /\ MetronIdOf(st.op) # NoId
            IN  /\ stored # {} => (st.id \in stored /\ ~st.searched)
                /\ (stored = {} /\ usable) => (st.id = MetronIdOf(st.op) /\ ~st.searched)
                /\ (stored = {} /\ ~usable) => st.searched
                /\ ~MetronFromComicVine => (st.searched \/ st.id \in stored)

\* C17 witness: MetronInfo's top-level id names another source and its
\* publisher id is 1; the metadata holds no Comicvine identifier; the
\* publisher stage searched and resolved another identifier than 1.
C17_Witness ==
    /\ Fetching
    /\ Len(fetch.stages) >= 1
    /\ fetch.before.metron_info.id # None
    /\ fetch.before.metron_info.id.source = METRON
    /\ fetch.before.metron_info.publisher.id = 1
    /\ StoredIds("publisher") = {}
    /\ fetch.stages[1].searched
    /\ fetch.stages[1].ok
    /\ fetch.stages[1].id # 1

\* MetronInfo's top-level id, publisher id and series id.
MetronIds(metron_info) ==
    <<metron_info.id, metron_info.publisher.id, metron_info.series.id>>

\* MetronInfo's top-level id named another source than Comic Vine before the
\* fetch.
MetronFromElsewhere ==
    /\ fetch.before.metron_info.id # None
    /\ fetch.before.metron_info.id.source # COMIC_VINE

\* The stage of Comicvine.fetch that resolved the entity, if one did.
Resolved(op) ==
    { fetch.stages[i].id : i \in { j \in DOMAIN fetch.stages :
                                      fetch.stages[j].op = op /\ fetch.stages[j].ok } }

\* C24: when MetronInfo's top-level id names another source than Comic
\* Vine, its top-level id, publisher id and series id stay what they were
\* through the three stages, while the metadata's names and resources take
\* what the stages resolved; when the top-level id is absent or names Comic
\* Vine, each stage that resolved its entity writes the identifier.
C24_ForeignIdsKept ==
    Fetching =>
        LET before == fetch.before.metron_info
            now == fetch.m.metron_info
        IN  /\ MetronFromElsewhere => MetronIds(now) = MetronIds(before)
            /\ MetronIds(now) # MetronIds(before) =>
                  (before.id = None \/ before.id.source = COMIC_VINE)
            /\ ~MetronFromElsewhere =>
                  /\ \A id \in Resolved("publisher") : now.publisher.id = id
                  /\ \A id \in Resolved("series") : now.series.id = id
                  /\ \A id \in Resolved("issue") : now.id = Resource(COMIC_VINE, id)
            /\ \A id \in Resolved("publisher") :
                  Resource(COMICVINE, id)
                     \in SetOf(fetch.m.metadata.issue.series.publisher.resources)
            /\ \A id \in Resolved("issue") :
                  now.number = get_issue(id).number

\* C24 witness: MetronInfo came from Metron with the identifiers 1; the
\* metadata held no Comicvine identifier; the three stages resolved other
\* identifiers by search, and MetronInfo's three identifiers are still the
\* ones of Metron.
C24_Witness ==
    /\ Fetching
    /\ fetch.before.metron_info.id = Resource(METRON, 1)
    /\ Len(fetch.stages) = 3
    /\ \A i \in 1..3 : fetch.stages[i].ok /\ fetch.stages[i].searched
                         /\ fetch.stages[i].id # 1
    /\ fetch.m.metron_info.id = Resource(METRON, 1)
    /\ fetch.m.metron_info.publisher.id = 1
    /\ fetch.m.metron_info.series.id = 1

(***************************************************************************)
(* Comicvine._search_issues, round by round (SpecSearch).  The catalog     *)
(* gives each issue its volume and its number; a round lists the issues    *)
(* the filter selects and the operator picks one or "None of the Above".   *)
(***************************************************************************)
\* The catalogs of the model: for each issue identifier, the volume the
\* issue belongs to and its number.
Catalogs == [Ids -> [volume : Ids, number : Numbers]]

\* session.list_issues({"filter": ...}): the issues of the volume, with that
\* number if one is given ("" stands for None).
list_issues(catalog, series_id, number) ==
    { i \in Ids : /\ catalog[i].volume = series_id
                  /\ (number = "" \/ catalog[i].number = number) }

\* One round of _search_issues as the log keeps it: the number it filtered
\* by, the candidates listed, the operator's choice (NoId is "None of the
\* Above") and whether list_issues raised ServiceError.
Round(number, options, choice, error) ==
    [number |-> number, options |-> options, choice |-> choice, error |-> error]

\* A mutant of SearchAgain: the search is repeated whatever the number.
SearchAgainAlways(number) == TRUE

\* Line 299, "if number:": the round that chose nothing is followed by
\* another one when it filtered by a number.
SearchAgain(number) == number # ""

InitSearch ==
    /\ archive = Idle /\ result = Idle /\ fetch = Idle /\ run = Idle
    /\ folder = Idle /\ call = Idle
    /\ \E catalog \in Catalogs, series_id \in Ids, number \in Numbers \cup {""} :
         search = [ catalog   |-> catalog,
                    series_id |-> series_id,
                    known     |-> number,
                    number    |-> number,
                    rounds    |-> <<>>,
                    pc        |-> "search",
                    value     |-> NoId ]

\* One call of _search_issues(series_id, number): list the candidates, show
\* the menu, and return the chosen identifier, call itself without the
\* number, or return None.  ServiceError ends the call with None.
SearchIssuesRound ==
    /\ search # Idle
    /\ search.pc = "search"
    /\ LET options == list_issues(search.catalog, search.series_id, search.number)
       IN  \E error \in BOOLEAN, choice \in options \cup {NoId} :
             search' =
               IF error
               THEN [search EXCEPT
                       !.rounds = Append(@, Round(search.number, {}, NoId, TRUE)),
                       !.pc = "done", !.value = NoId]
               ELSE IF choice # NoId
               THEN [search EXCEPT
                       !.rounds = Append(@, Round(search.number, options, choice, FALSE)),
                       !.pc = "done", !.value = choice]
               ELSE IF SearchAgain(search.number)
               THEN [search EXCEPT
                       !.rounds = Append(@, Round(search.number, options, NoId, FALSE)),
                       !.number = ""]
               ELSE [search EXCEPT
                       !.rounds = Append(@, Round(search.number, options, NoId, FALSE)),
                       !.pc = "done", !.value = NoId]
    /\ UNCHANGED <<archive, result, fetch, run, folder, call>>

NextSearch == SearchIssuesRound

SpecSearch == InitSearch /\ [][NextSearch]_vars

(***************************************************************************)
(* Claims about _search_issues (SpecSearch).                               *)
(***************************************************************************)
Searching == search # Idle

\* C18 as stated: the first round filters by the known number, there are at
\* most two rounds, and a second round (without the number) runs only if the
\* first round returned no candidates.
C18_Original ==
    Searching =>
        /\ Len(search.rounds) <= 2
        /\ Len(search.rounds) >= 1 => search.rounds[1].number = search.known
        /\ Len(search.rounds) >= 2 =>
              /\ search.rounds[2].number = ""
              /\ search.rounds[1].options = {}

\* C18 amended: the first round filters by the known number; a second round
\* runs exactly when the first round filtered by a number, raised no error
\* and ended without a choice (no candidates, or "None of the Above" chosen
\* among candidates); the second round is without the number and is the
\* last.
C18_RetryOnce ==
    Searching =>
        /\ Len(search.rounds) <= 2
        /\ Len(search.rounds) >= 1 => search.rounds[1].number = search.known
        /\ Len(search.rounds) >= 2 =>
              /\ search.rounds[2].number = ""
              /\ search.rounds[1].number # ""
              /\ ~search.rounds[1].error
              /\ search.rounds[1].choice = NoId
        /\ (search.pc = "done" /\ Len(search.rounds) = 1) =>
              \/ search.rounds[1].number = ""
              \/ search.rounds[1].error
              \/ search.rounds[1].choice # NoId
        /\ search.pc = "done" =>
              search.value = search.rounds[Len(search.rounds)].choice

\* C18 witness: the first round, with the number, listed candidates and the
\* operator chose none of them; the second round, without the number, ended
\* with a choice.
C18_Witness ==
    /\ Searching
    /\ search.pc = "done"
    /\ Len(search.rounds) = 2
    /\ search.rounds[1].number # ""
    /\ search.rounds[1].options # {}
    /\ search.rounds[1].choice = NoId
    /\ search.rounds[2].number = ""
    /\ search.rounds[2].choice # NoId
    /\ search.value = search.rounds[2].choice

(***************************************************************************)
(* Comicvine._search_publishers and Comicvine._search_series, round by     *)
(* round (SpecTitles).  The catalog gives each identifier a name; a round  *)
(* settles the title, lists the candidates, shows the menu and, after      *)
(* "None of the Above", asks "Try Again".                                  *)
(***************************************************************************)
\* A search is followed for at most MaxRounds rounds.
MaxRounds == 3

\* The catalogs of the model: the name of each publisher (or volume).
NameCatalogs == [Ids -> Titles]

\* session.list_publishers({"filter": "name:<title>"}), lines 157-159.
list_publishers(names, title) == { x \in Ids : names[x] = title }

\* session.list_volumes({"filter": "name:<title>"}) restricted to the
\* volumes of the publisher, lines 213-217.
list_volumes(names, publisher_id, title) ==
    { x \in Ids : names[x] = title /\ VolumePublisher(x) = publisher_id }

\* The candidates of a round of either search.
OptionsOf(s, title) ==
    IF s.fn = "_search_publishers" THEN list_publishers(s.names, title)
    ELSE list_volumes(s.names, s.publisher_id, title)

\* One round as the log keeps it: the title searched, whether Prompt.ask
\* was used to get it, the candidates, the operator's choice (NoId is "None
\* of the Above"), whether "Try Again" was asked and its answer, and whether
\* the listing raised ServiceError.
TitleRound(title, prompted, options, choice, asked, again, error) ==
    [ title |-> title, prompted |-> prompted, options |-> options,
      choice |-> choice, asked |-> asked, again |-> again, error |-> error ]

\* A mutant of TryAgain: the answer to "Try Again" is not looked at.
TryAgainAlways(again) == TRUE

\* Lines 169 and 233, "if not Confirm.ask(...): return None".
TryAgain(again) == again

InitTitles ==
    /\ archive = Idle /\ result = Idle /\ fetch = Idle /\ run = Idle
    /\ folder = Idle /\ call = Idle
    /\ \E names \in NameCatalogs, title \in Titles \cup {""},
          fn \in {"_search_publishers", "_search_series"},
          publisher_id \in Ids \cup {NoId} :
         /\ (fn = "_search_publishers") <=> (publisher_id = NoId)
         /\ search = [ fn           |-> fn,
                       publisher_id |-> publisher_id,
                       names        |-> names,
                       given        |-> title,
                       title        |-> title,
                       rounds       |-> <<>>,
                       pc           |-> "search",
                       value        |-> NoId ]

\* One call of _search_publishers(title) or _search_series(publisher_id,
\* title): the title is the argument or, when that is None or empty, what
\* the operator types; the candidates are listed and the menu is shown; a
\* chosen candidate is returned; after "None of the Above" the operator is
\* asked "Try Again" and the function returns None or calls itself with
\* title=None.  ServiceError ends the call with None.  The operator is
\* followed for MaxRounds rounds.
SearchTitlesRound ==
    /\ search # Idle
    /\ search.pc = "search"
    /\ \E typed \in Titles, error \in BOOLEAN :
         LET prompted == search.title = ""
             title == IF prompted THEN typed ELSE search.title
             options == OptionsOf(search, title)
         IN  /\ ~prompted => typed = search.title
             /\ \E choice \in options \cup {NoId}, again \in BOOLEAN :
                  /\ (error \/ choice # NoId) => ~again
                  /\ again => Len(search.rounds) + 1 < MaxRounds
                  /\ search' =
                       IF error
                       THEN [search EXCEPT
                               !.rounds = Append(@, TitleRound(title, prompted, {},
                                                     NoId, FALSE, FALSE, TRUE)),
                               !.pc = "done", !.value = NoId]
                       ELSE IF choice # NoId
                       THEN [search EXCEPT
                               !.rounds = Append(@, TitleRound(title, prompted, options,
                                                     choice, FALSE, FALSE, FALSE)),
                               !.pc = "done", !.value = choice]
                       ELSE IF ~TryAgain(again)
                       THEN [search EXCEPT
                               !.rounds = Append(@, TitleRound(title, prompted, options,
                                                     NoId, TRUE, again, FALSE)),
                               !.pc = "done", !.value = NoId]
                       ELSE [search EXCEPT
                               !.rounds = Append(@, TitleRound(title, prompted, options,
                                                     NoId, TRUE, again, FALSE)),
                               !.title = ""]
    /\ UNCHANGED <<archive, result, fetch, run, folder, call>>

NextTitles == SearchTitlesRound

\* A round in which the operator selects a candidate or declines "Try
\* Again", or the service raises its error.
OperatorEnds == SearchTitlesRound /\ search'.pc = "done"

\* Prompts block until the operator answers; the operator of this
\* specification does not answer "Try Again" with yes for ever.
SpecTitles == InitTitles /\ [][NextTitles]_vars /\ WF_vars(OperatorEnds)

(***************************************************************************)
(* Claims about _search_publishers and _search_series (SpecTitles).        *)
(***************************************************************************)
\* The rounds of a title search, as far as they went.
TitleRounds ==
    /\ search.fn \in {"_search_publishers", "_search_series"}
    /\ \A i \in DOMAIN search.rounds :
         LET r == search.rounds[i]
             last == i = Len(search.rounds)
             ends == r.error \/ r.choice # NoId \/ (r.asked /\ ~r.again)
         IN  /\ r.asked <=> (~r.error /\ r.choice = NoId)
             /\ (i > 1) => r.prompted
             /\ (i = 1) => (r.prompted <=> search.given = "")
             /\ ~last => (~r.error /\ r.choice = NoId /\ r.asked /\ r.again)
             /\ (last /\ ends) => (search.pc = "done" /\ search.value = r.choice)
             /\ (last /\ ~ends) => search.pc = "search"
    /\ search.pc = "done" => search.rounds # <<>>

\* C21: a publisher or series search ends with the round in which the
\* operator selects a candidate, declines "Try Again" or the service raises
\* an error; a further round starts only after "None of the Above" and a
\* confirmed "Try Again", and asks for the title anew; and with an operator
\* who eventually selects or declines, the search ends.
C21_SearchEnds ==
    /\ [](Searching => TitleRounds)
    /\ (Searching ~> search.pc = "done")

\* C21 witness: a series search of three rounds; twice the operator chose
\* "None of the Above" and confirmed "Try Again", the third round asked for
\* a title again and ended with a candidate selected.
C21_Witness ==
    /\ Searching
    /\ search.fn = "_search_series"
    /\ search.pc = "done"
    /\ Len(search.rounds) = 3
    /\ search.rounds[1].again /\ search.rounds[2].again
    /\ ~search.rounds[1].prompted
    /\ search.rounds[3].prompted
    /\ search.rounds[3].choice # NoId
    /\ search.value = search.rounds[3].choice

=============================================================================
